---- MODULE Spec2Model ----
(***************************************************************************)
(* RedoxFS file scheme (src/src/schemes/src/file.rs) and the example       *)
(* user-space scheme provider (src/filesystem/apps/example/main.rs).       *)
(*                                                                         *)
(* A FileResource is the record [kind, node, vec, seek, dirty]; the disk   *)
(* is a function from sector number to a 512-byte sequence.  Sequences are *)
(* 1-based here, so byte k of a Rust Vec is element k + 1.                 *)
(***************************************************************************)
EXTENDS Integers, Sequences, FiniteSets, TLC

VARIABLES
    disk,      \* FileSystem.disk: sector number -> the sector's 512 bytes
    nodes,     \* FileSystem.nodes: the node index loaded at mount
    files,     \* the open resources returned by FileScheme::open, by handle
    ret,       \* the last resource call: operation, handle, argument, results
    mvec,      \* reference byte array of each handle (overwrite-and-extend)
    mseek,     \* reference position of each handle
    steps,     \* number of resource calls made so far
    hist,      \* the first resource calls, oldest first, while there are at most
               \* LogLen of them: the operation, with the path of an open and
               \* the bytes of a write
    next_id,   \* ExampleScheme.next_id
    exfiles,   \* ExampleScheme.files: id -> ExampleFile
    exret,     \* the last call on the example provider
    expanic,   \* the example provider has panicked (overflow check of the build)
    exleft,    \* the calls the clients of the example provider have left to
               \* make; negative: no limit
    rte,       \* a running Read::read_to_end: its place, vec and read count
    boot,      \* FileSystem::from_disk: the disk it is given, its result, its reads
    socket,    \* main of the example provider: its place in the loop, the
               \* packet it holds, the packets read and the replies written
    kernel     \* the processor and the scheduler: the interrupt flag, the
               \* current context and the number of contexts, and the place
               \* and locals of the operation that is running step by step

vars == <<steps, disk, nodes, files, ret, mvec, mseek, hist, next_id, exfiles, exret, expanic,
          exleft, rte, boot, socket, kernel>>
fsvars == <<steps, disk, nodes, files, ret, mvec, mseek, hist>>
exvars == <<next_id, exfiles, exret, expanic, exleft, socket>>
auxvars == <<rte, boot, kernel>>

-----------------------------------------------------------------------------
(* Program constants *)

BlockSize == 512
NumExtents == 16
MaxChunk == 65535

(* Bounds of the model *)

MaxOps == 4
LogLen == 3
BigLen == 600
IdBits == 4
MaxOpen == 2
MaxNodes == 3
MaxCalls == 4

Handles == {1}
Sectors == 7 .. 10
Garbage == {0, 255}

Min(a, b) == IF a < b THEN a ELSE b
Max(a, b) == IF a > b THEN a ELSE b

Fill(n, b) == [i \in 1 .. n |-> b]

RECURSIVE SumTo(_, _)
SumTo(f, n) == IF n = 0 THEN 0 ELSE f[n] + SumTo(f, n - 1)

-----------------------------------------------------------------------------
(* On-disk layout and the node index *)

Extent(block, length) == [block |-> block, length |-> length]

NoExtent == Extent(0, 0)

Extents(used) == [i \in 1 .. NumExtents |-> IF i <= Len(used) THEN used[i] ELSE NoExtent]

Node(address, name, used) == [address |-> address, name |-> name, extents |-> Extents(used)]

InitNodes ==
    << Node(2, "a", <<Extent(7, 5)>>),
       Node(3, "b", <<Extent(8, 5), NoExtent, Extent(9, 5)>>),
       Node(4, "c", <<Extent(10, 512)>>),
       Node(5, "e", <<>>),
       Node(6, "a", <<Extent(10, 3)>>) >>

InitDisk == [s \in Sectors |-> [i \in 1 .. BlockSize |-> (16 * s + i) % 256]]

Used(extent) == extent.block > 0 /\ extent.length > 0

SectorsOf(length) == (length + BlockSize - 1) \div BlockSize

-----------------------------------------------------------------------------
(* Disk adapter: sector-granular transfers *)

\* Disk::read / Disk::request(read): count sectors starting at block
RECURSIVE DiskRead(_, _, _)
DiskRead(d, block, count) ==
    IF count = 0 THEN <<>>
    ELSE DiskRead(d, block, count - 1) \o d[block + count - 1]

\* Disk::write: count sectors starting at block, taken from src
DiskWrite(d, block, count, src) ==
    [s \in DOMAIN d |->
        IF block <= s /\ s < block + count
        THEN SubSeq(src, (s - block) * BlockSize + 1, (s - block + 1) * BlockSize)
        ELSE d[s]]

\* the bytes at vec.as_ptr() + from, n of them; a byte past the end of the
\* vector is whatever the allocator left there (g)
MemAt(vec, from, n, g) ==
    [k \in 1 .. n |-> IF from + k <= Len(vec) THEN vec[from + k] ELSE g]

\* what the memory after the vector may hold when sync reads it: a clean
\* resource reads nothing
Leftover(f) == IF f.dirty THEN Garbage ELSE {0}

\* the device calls sync issues for an extent of `sectors` sectors
RECURSIVE SyncChunks(_, _)
SyncChunks(sectors, sector) ==
    IF sectors - sector >= 65536
    THEN <<[sector |-> sector, count |-> MaxChunk]>> \o SyncChunks(sectors, sector + 65535)
    ELSE IF sector < sectors
         THEN <<[sector |-> sector, count |-> sectors - sector]>>
         ELSE <<>>

\* the requests open issues for an extent of `sectors` sectors
RECURSIVE OpenChunks(_, _)
OpenChunks(sectors, sector) ==
    IF sectors - sector >= 65536
    THEN <<[sector |-> sector, count |-> 65536]>> \o OpenChunks(sectors, sector + 65535)
    ELSE IF sector < sectors
         THEN <<[sector |-> sector, count |-> sectors - sector]>>
         ELSE <<>>

-----------------------------------------------------------------------------
(* FileSystem *)

\* a lookup that keeps the last node of that name
RECURSIVE NodeIndexLast(_, _, _)
NodeIndexLast(ns, filename, i) ==
    IF i > Len(ns) THEN 0
    ELSE LET later == NodeIndexLast(ns, filename, i + 1)
         IN  IF later # 0 THEN later
             ELSE IF ns[i].name = filename THEN i ELSE 0

\* FileSystem::node: the first node of that name, 0 when there is none
RECURSIVE NodeIndex(_, _, _)
NodeIndex(ns, filename, i) ==
    IF i > Len(ns) THEN 0
    ELSE IF ns[i].name = filename THEN i
    ELSE NodeIndex(ns, filename, i + 1)

-----------------------------------------------------------------------------
(* FileResource *)

Closed == [kind |-> "closed"]
NoneResource == [kind |-> "none"]

FileResource(node, vec) ==
    [kind |-> "file", node |-> node, vec |-> vec, seek |-> 0, dirty |-> FALSE]

IsFile(h) == files[h].kind = "file"

\* a read loop that copies the bytes but leaves the position where it was
ReadLoopNoAdvance(vec, seek, buf) ==
    LET i == IF seek < Len(vec) THEN Min(Len(buf), Len(vec) - seek) ELSE 0
    IN  [seek |-> seek,
         buf |-> [k \in 1 .. Len(buf) |-> IF k <= i THEN vec[seek + k] ELSE buf[k]],
         i |-> i]

\* the loop of FileResource::read, run to its exit: it copies one byte per
\* iteration while i < buf.len() and seek < vec.len()
ReadLoop(vec, seek, buf) ==
    LET i == IF seek < Len(vec) THEN Min(Len(buf), Len(vec) - seek) ELSE 0
    IN  [seek |-> seek + i,
         buf |-> [k \in 1 .. Len(buf) |-> IF k <= i THEN vec[seek + k] ELSE buf[k]],
         i |-> i]

\* a first loop that stops one byte before the end of the vector
WriteSetShort(vec, seek, buf) ==
    LET i == IF seek + 1 < Len(vec) THEN Min(Len(buf), Len(vec) - seek - 1) ELSE 0
    IN  [vec |-> [k \in 1 .. Len(vec) |->
                    IF seek < k /\ k <= seek + i THEN buf[k - seek] ELSE vec[k]],
         seek |-> seek + i,
         i |-> i]

\* the first loop of FileResource::write, run to its exit: it overwrites one
\* byte per iteration while i < buf.len() and seek < vec.len()
WriteSet(vec, seek, buf) ==
    LET i == IF seek < Len(vec) THEN Min(Len(buf), Len(vec) - seek) ELSE 0
    IN  [vec |-> [k \in 1 .. Len(vec) |->
                    IF seek < k /\ k <= seek + i THEN buf[k - seek] ELSE vec[k]],
         seek |-> seek + i,
         i |-> i]

\* a second loop that starts again at buf[0]
WritePushAll(vec, seek, buf, i) ==
    IF i < Len(buf)
    THEN [vec |-> vec \o buf, seek |-> seek + Len(buf), i |-> Len(buf)]
    ELSE [vec |-> vec, seek |-> seek, i |-> i]

\* the second loop of FileResource::write, run to its exit: it pushes
\* buf[i], buf[i + 1], ... while i < buf.len()
WritePush(vec, seek, buf, i) ==
    IF i < Len(buf)
    THEN [vec |-> vec \o SubSeq(buf, i + 1, Len(buf)),
          seek |-> seek + (Len(buf) - i),
          i |-> Len(buf)]
    ELSE [vec |-> vec, seek |-> seek, i |-> i]

\* a write that marks the resource dirty whatever it wrote
FileWriteAlwaysDirty(f, buf) ==
    LET a == WriteSet(f.vec, f.seek, buf)
        b == WritePush(a.vec, a.seek, buf, a.i)
    IN  [res |-> [f EXCEPT !.vec = b.vec, !.seek = b.seek, !.dirty = TRUE],
         val |-> b.i]

FileWrite(f, buf) ==
    LET a == WriteSet(f.vec, f.seek, buf)
        b == WritePush(a.vec, a.seek, buf, a.i)
    IN  [res |-> [f EXCEPT !.vec = b.vec, !.seek = b.seek,
                           !.dirty = IF b.i > 0 THEN TRUE ELSE f.dirty],
         val |-> b.i]

FileRead(f, buf) ==
    LET a == ReadLoop(f.vec, f.seek, buf)
    IN  [res |-> [f EXCEPT !.seek = a.seek], val |-> a.i, out |-> a.buf]

ReadBufSize == 1024

\* let mut bytes = [0; 1024]
ZeroBytes == SubSeq(Fill(ReadBufSize, 0), 1, ReadBufSize)

\* a push loop that takes the whole buffer, whatever the read returned
PushBytesAll(vec, bytes, count) == vec \o bytes

\* for i in 0 .. count { vec.push(bytes[i]) }
PushBytes(vec, bytes, count) == vec \o SubSeq(bytes, 1, count)

\* Read::read_to_end over a FileResource: read into a 1024-byte buffer until
\* a read returns 0
RECURSIVE ReadToEnd(_, _, _)
ReadToEnd(f, vec, read) ==
    LET r == FileRead(f, ZeroBytes)
    IN  IF r.val = 0 THEN [res |-> r.res, vec |-> vec, val |-> read]
        ELSE ReadToEnd(r.res, PushBytes(vec, r.out, r.val), read + r.val)

\* a position computed without the clamp at 0
SeekTargetUnclamped(f, pos) ==
    CASE pos.whence = "Start" -> pos.offset
      [] pos.whence = "Current" -> f.seek + pos.offset
      [] pos.whence = "End" -> Len(f.vec) + pos.offset

\* the position FileResource::seek computes
SeekTarget(f, pos) ==
    CASE pos.whence = "Start" -> pos.offset
      [] pos.whence = "Current" -> Max(0, f.seek + pos.offset)
      [] pos.whence = "End" -> Max(0, Len(f.vec) + pos.offset)

\* seek that leaves the vector as it is
SeekPushNone(vec, seek) == vec

\* a zero-fill loop that runs while vec.len() <= seek
SeekPushInclusive(vec, seek) ==
    IF Len(vec) <= seek THEN vec \o Fill(seek + 1 - Len(vec), 0) ELSE vec

\* the zero-fill loop of FileResource::seek, run to its exit: it pushes a 0
\* while vec.len() < seek
SeekPush(vec, seek) ==
    IF Len(vec) < seek THEN vec \o Fill(seek - Len(vec), 0) ELSE vec

FileSeek(f, pos) ==
    LET s == SeekTarget(f, pos)
    IN  [res |-> [f EXCEPT !.seek = s, !.vec = SeekPush(f.vec, s)], val |-> s]

\* the device writes of one extent in FileResource::sync: each chunk takes
\* count sectors from data + sector * 512, where data = vec.as_ptr() + pos
RECURSIVE SyncWrite(_, _, _, _, _, _)
SyncWrite(d, chunks, block, vec, pos, g) ==
    IF chunks = <<>> THEN d
    ELSE LET c == Head(chunks)
             src == MemAt(vec, pos + c.sector * BlockSize, c.count * BlockSize, g)
         IN  SyncWrite(DiskWrite(d, block + c.sector, c.count, src),
                       Tail(chunks), block, vec, pos, g)

\* the device calls of one extent, as (block, count, offset into the vector)
SyncCalls(chunks, block, pos) ==
    [k \in 1 .. Len(chunks) |->
        [block |-> block + chunks[k].sector, count |-> chunks[k].count,
         from |-> pos + chunks[k].sector * BlockSize]]

\* an extent loop that never counts down the bytes left
SyncExtentKeepRemaining(st, vec, i, g) ==
    LET extent == st.extents[i]
        size == Min(st.remaining, SectorsOf(extent.length) * 512)
        chunks == SyncChunks(SectorsOf(size), 0)
    IN  IF Used(extent)
        THEN [extents |-> [st.extents EXCEPT ![i].length = size],
              node_dirty |-> st.node_dirty \/ size # extent.length,
              disk |-> SyncWrite(st.disk, chunks, extent.block, vec, st.pos, g),
              writes |-> st.writes \o SyncCalls(chunks, extent.block, st.pos),
              pos |-> st.pos + size,
              remaining |-> st.remaining]
        ELSE st

\* an extent loop that takes the bytes of every extent from the start of the
\* buffer
SyncExtentNoAdvance(st, vec, i, g) ==
    LET extent == st.extents[i]
        size == Min(st.remaining, SectorsOf(extent.length) * 512)
        chunks == SyncChunks(SectorsOf(size), 0)
    IN  IF Used(extent)
        THEN [extents |-> [st.extents EXCEPT ![i].length = size],
              node_dirty |-> st.node_dirty \/ size # extent.length,
              disk |-> SyncWrite(st.disk, chunks, extent.block, vec, 0, g),
              writes |-> st.writes \o SyncCalls(chunks, extent.block, 0),
              pos |-> st.pos,
              remaining |-> st.remaining - size]
        ELSE st

\* an extent loop that hands an extent all the bytes that remain, whatever
\* the sectors the extent has
SyncExtentUncapped(st, vec, i, g) ==
    LET extent == st.extents[i]
        size == st.remaining
        chunks == SyncChunks(SectorsOf(size), 0)
    IN  IF Used(extent)
        THEN [extents |-> IF size # extent.length
                          THEN [st.extents EXCEPT ![i].length = size]
                          ELSE st.extents,
              node_dirty |-> st.node_dirty \/ size # extent.length,
              disk |-> SyncWrite(st.disk, chunks, extent.block, vec, st.pos, g),
              writes |-> st.writes \o SyncCalls(chunks, extent.block, st.pos),
              pos |-> st.pos + size,
              remaining |-> st.remaining - size]
        ELSE st

\* the body of the extent loop of FileResource::sync, for slot i
SyncExtent(st, vec, i, g) ==
    LET extent == st.extents[i]
        current_sectors == SectorsOf(extent.length)
        max_size == current_sectors * 512
        size == Min(st.remaining, max_size)
        sectors == SectorsOf(size)
        chunks == SyncChunks(sectors, 0)
    IN  IF Used(extent)
        THEN [extents |-> IF size # extent.length
                          THEN [st.extents EXCEPT ![i].length = size]
                          ELSE st.extents,
              node_dirty |-> st.node_dirty \/ size # extent.length,
              disk |-> SyncWrite(st.disk, chunks, extent.block, vec, st.pos, g),
              writes |-> st.writes \o SyncCalls(chunks, extent.block, st.pos),
              pos |-> st.pos + size,
              remaining |-> st.remaining - size]
        ELSE st

RECURSIVE SyncLoop(_, _, _, _)
SyncLoop(st, vec, i, g) ==
    IF i > NumExtents THEN st
    ELSE SyncLoop(SyncExtent(st, vec, i, g), vec, i + 1, g)

\* a sync that walks the extents whether the resource is dirty or not
FileSyncAlways(f, d, g) ==
    LET st == SyncLoop([extents |-> f.node.extents, node_dirty |-> FALSE, disk |-> d,
                        writes |-> <<>>, pos |-> 0, remaining |-> Len(f.vec)],
                       f.vec, 1, g)
    IN  [res |-> [f EXCEPT !.node.extents = st.extents, !.dirty = FALSE],
         disk |-> st.disk,
         writes |-> st.writes,
         val |-> ~(st.remaining > 0)]

\* FileResource::sync
FileSync(f, d, g) ==
    IF f.dirty
    THEN LET st == SyncLoop([extents |-> f.node.extents, node_dirty |-> FALSE, disk |-> d,
                             writes |-> <<>>, pos |-> 0, remaining |-> Len(f.vec)],
                            f.vec, 1, g)
         IN  [res |-> [f EXCEPT !.node.extents = st.extents, !.dirty = FALSE],
              disk |-> st.disk,
              writes |-> st.writes,
              val |-> ~(st.remaining > 0)]
    ELSE [res |-> f, disk |-> d, writes |-> <<>>, val |-> TRUE]

\* the read of one extent in FileScheme::open: the requests fill a buffer of
\* whole sectors, of which the first extent.length bytes are kept
RECURSIVE OpenRead(_, _, _)
OpenRead(d, chunks, block) ==
    IF chunks = <<>> THEN <<>>
    ELSE DiskRead(d, block + Head(chunks).sector, Head(chunks).count)
         \o OpenRead(d, Tail(chunks), block)

ExtentBytes(d, extent) ==
    SubSeq(OpenRead(d, OpenChunks(SectorsOf(extent.length), 0), extent.block),
           1, extent.length)

\* the extent loop of FileScheme::open
RECURSIVE OpenLoop(_, _, _)
OpenLoop(d, extents, i) ==
    IF i > NumExtents THEN <<>>
    ELSE (IF Used(extents[i]) THEN ExtentBytes(d, extents[i]) ELSE <<>>)
         \o OpenLoop(d, extents, i + 1)

\* the device requests of the extent loop of FileScheme::open, as (block,
\* count, offset into the extent's buffer)
RECURSIVE OpenRequests(_, _)
OpenRequests(extents, i) ==
    IF i > NumExtents THEN <<>>
    ELSE (IF Used(extents[i])
          THEN LET chunks == OpenChunks(SectorsOf(extents[i].length), 0)
               IN  [k \in 1 .. Len(chunks) |->
                       [block |-> extents[i].block + chunks[k].sector,
                        count |-> chunks[k].count,
                        from |-> chunks[k].sector * BlockSize]]
          ELSE <<>>)
         \o OpenRequests(extents, i + 1)

\* the device requests of FileScheme::open, for a path that is not a directory
OpenCalls(ns, path) ==
    LET n == NodeIndex(ns, path, 1)
    IN  IF n # 0 THEN OpenRequests(ns[n].extents, 1) ELSE <<>>

\* an open that falls back to the first node when no node has the name
FileOpenFallback(ns, d, path) ==
    LET n == NodeIndex(ns, path, 1)
        m == IF n # 0 THEN n ELSE 1
    IN  FileResource(ns[m], OpenLoop(d, ns[m].extents, 1))

\* FileScheme::open, for a path that is not a directory
FileOpen(ns, d, path) ==
    LET n == NodeIndex(ns, path, 1)
    IN  IF n # 0 THEN FileResource(ns[n], OpenLoop(d, ns[n].extents, 1))
        ELSE NoneResource

-----------------------------------------------------------------------------
(* Reference model: a byte array with overwrite-and-extend at the position *)

RefWrite(a, s, buf) ==
    [k \in 1 .. Max(Len(a), s + Len(buf)) |->
        IF s < k /\ k <= s + Len(buf) THEN buf[k - s]
        ELSE IF k <= Len(a) THEN a[k] ELSE 0]

RefSeekPos(a, s, pos) ==
    IF pos.whence = "Start" THEN pos.offset
    ELSE IF pos.whence = "Current"
         THEN (IF s + pos.offset < 0 THEN 0 ELSE s + pos.offset)
         ELSE (IF Len(a) + pos.offset < 0 THEN 0 ELSE Len(a) + pos.offset)

RefExtend(a, s) == a \o [k \in 1 .. (s - Len(a)) |-> 0]

-----------------------------------------------------------------------------
(* Inputs *)

\* the caller's buffer handed to read: n bytes, 0xAA in each
ReadBuf(n) == Fill(n, 170)

Paths == {"a", "b", "c", "e", "zz"}

WriteBufs == {<<>>, <<65, 66>>, <<70, 71, 72, 73, 74, 75, 76>>, Fill(BigLen, 88)}

ReadLens == {0, 3}

\* the three forms of ResourceSeek
Start(o) == [whence |-> "Start", offset |-> o]
Current(o) == [whence |-> "Current", offset |-> o]
End(o) == [whence |-> "End", offset |-> o]

SeekArgs ==
    [whence : {"Start"}, offset : {0, 7}]
        \cup [whence : {"Current"}, offset : {-3, 1}]
        \cup [whence : {"End"}, offset : {-8, 2}]

\* the log once more than LogLen calls were made
LogFull == <<[op |-> "more", arg |-> 0]>>

Logged(entry) ==
    IF hist # LogFull /\ Len(hist) < LogLen THEN Append(hist, entry) ELSE LogFull

Call(op, h, arg, val, out, writes) ==
    [op |-> op, h |-> h, arg |-> arg, val |-> val, out |-> out, writes |-> writes]

-----------------------------------------------------------------------------
(* The example provider *)

\* isize is modelled IdBits wide
MaxId == 2 ^ (IdBits - 1) - 1

\* two's-complement wrap of an isize
WrapId(n) == IF n > MaxId THEN n - 2 ^ IdBits ELSE n

\* ExampleFile::new: the bytes of "Example"
ExampleFile == [data |-> <<69, 120, 97, 109, 112, 108, 101>>, seek |-> 0]

\* the file system has been mounted
Booted == [pc |-> "done", image |-> <<>>, some |-> TRUE, reads |-> <<>>]

\* no read_to_end is running
NoReadToEnd == [pc |-> "idle", vec |-> <<>>, read |-> 0, calls |-> 0, buffer |-> <<>>, from |-> 0]

ExCall(op, id, res, val) == [op |-> op, id |-> id, res |-> res, val |-> val, out |-> <<>>]

\* Packet::default() with the fields of a request: operation, handle id, two
\* argument words, and the result word of the reply
Packet(op, id, a, b) == [op |-> op, id |-> id, a |-> a, b |-> b, result |-> 0]

\* interrupts enabled, one context, and no operation running step by step
NoKernel ==
    [ints |-> TRUE, context_i |-> 0, contexts |-> 1, pc |-> "idle", reenable |-> FALSE,
     depth |-> 0, entry |-> TRUE, h |-> 1, slot |-> 0, pos |-> 0, remaining |-> 0,
     size |-> 0, chunks |-> <<>>, g |-> 0, i |-> 0, len |-> 0, held |-> {}, runs |-> 0,
     masked |-> TRUE, want |-> InitDisk, call |-> "none", irqs |-> 0]

\* the provider is called directly, not through its socket
NoSocket == [pc |-> "none", packet |-> Packet("none", 0, 0, 0), count |-> 0, reads |-> 0,
             sent |-> <<>>]

\* BTreeMap::insert and BTreeMap::remove
MapInsert(m, k, v) == [x \in DOMAIN m \cup {k} |-> IF x = k THEN v ELSE m[x]]
MapRemove(m, k) == [x \in DOMAIN m \ {k} |-> m[x]]

\* an id counter that wraps and is not reset
NextIdNoReset(n) == WrapId(n + 1)

\* the id counter after ExampleScheme::open took an id
NextId(n) == IF WrapId(n + 1) < 0 THEN 1 ELSE WrapId(n + 1)

-----------------------------------------------------------------------------
(* The file scheme: one action per resource call *)

Init ==
    /\ disk = InitDisk
    /\ nodes = InitNodes
    /\ files = [h \in Handles |-> Closed]
    /\ ret = Call("none", 0, 0, 0, <<>>, <<>>)
    /\ mvec = [h \in Handles |-> <<>>]
    /\ mseek = [h \in Handles |-> 0]
    /\ steps = 0
    /\ hist = <<>>
    /\ next_id = 1
    /\ exfiles = <<>>
    /\ exret = ExCall("none", 0, "Ok", 0)
    /\ expanic = FALSE
    /\ kernel = NoKernel
    /\ socket = NoSocket
    /\ exleft = -1
    /\ rte = NoReadToEnd
    /\ boot = Booted

Open(h, path) ==
    /\ steps < MaxOps
    /\ files[h].kind = "closed"
    /\ LET r == FileOpen(nodes, disk, path)
       IN  /\ files' = [files EXCEPT ![h] = r]
           /\ mvec' = [mvec EXCEPT ![h] = IF r.kind = "file" THEN r.vec ELSE <<>>]
           /\ mseek' = [mseek EXCEPT ![h] = 0]
           /\ ret' = Call("open", h, path, 0, <<>>, OpenCalls(nodes, path))
    /\ steps' = steps + 1
    /\ hist' = Logged([op |-> "open", arg |-> path])
    /\ UNCHANGED <<disk, nodes, exvars, auxvars>>

Read(h, n) ==
    /\ steps < MaxOps
    /\ IsFile(h)
    /\ LET r == FileRead(files[h], ReadBuf(n))
       IN  /\ files' = [files EXCEPT ![h] = r.res]
           /\ mseek' = [mseek EXCEPT ![h] = @ + Min(n, Len(mvec[h]) - @)]
           /\ ret' = Call("read", h, n, r.val, r.out, <<>>)
    /\ steps' = steps + 1
    /\ hist' = Logged([op |-> "read", arg |-> 0])
    /\ UNCHANGED <<disk, nodes, mvec, exvars, auxvars>>

Write(h, buf) ==
    /\ steps < MaxOps
    /\ IsFile(h)
    /\ LET r == FileWrite(files[h], buf)
       IN  /\ files' = [files EXCEPT ![h] = r.res]
           /\ ret' = Call("write", h, buf, r.val, <<>>, <<>>)
    /\ mvec' = [mvec EXCEPT ![h] = RefWrite(@, mseek[h], buf)]
    /\ mseek' = [mseek EXCEPT ![h] = @ + Len(buf)]
    /\ steps' = steps + 1
    /\ hist' = Logged([op |-> "write", arg |-> buf])
    /\ UNCHANGED <<disk, nodes, exvars, auxvars>>

Seek(h, pos) ==
    /\ steps < MaxOps
    /\ IsFile(h)
    /\ LET r == FileSeek(files[h], pos)
       IN  /\ files' = [files EXCEPT ![h] = r.res]
           /\ ret' = Call("seek", h, pos, r.val, <<>>, <<>>)
    /\ LET s == RefSeekPos(mvec[h], mseek[h], pos)
       IN  /\ mseek' = [mseek EXCEPT ![h] = s]
           /\ mvec' = [mvec EXCEPT ![h] = RefExtend(@, s)]
    /\ steps' = steps + 1
    /\ hist' = Logged([op |-> "seek", arg |-> 0])
    /\ UNCHANGED <<disk, nodes, exvars, auxvars>>

Sync(h) ==
    /\ steps < MaxOps
    /\ IsFile(h)
    /\ \E g \in Leftover(files[h]) :
         LET r == FileSync(files[h], disk, g)
         IN  /\ files' = [files EXCEPT ![h] = r.res]
             /\ disk' = r.disk
             /\ ret' = Call("sync", h, 0, r.val, <<>>, r.writes)
    /\ steps' = steps + 1
    /\ hist' = Logged([op |-> "sync", arg |-> 0])
    /\ UNCHANGED <<nodes, mvec, mseek, exvars, auxvars>>

\* a drop that releases the resource without the sync
CloseNoSync(h) ==
    /\ steps < MaxOps
    /\ files[h].kind # "closed"
    /\ disk' = disk
    /\ ret' = Call("close", h, 0, TRUE, <<>>, <<>>)
    /\ files' = [files EXCEPT ![h] = Closed]
    /\ mvec' = [mvec EXCEPT ![h] = <<>>]
    /\ mseek' = [mseek EXCEPT ![h] = 0]
    /\ steps' = steps + 1
    /\ hist' = Logged([op |-> "close", arg |-> 0])
    /\ UNCHANGED <<nodes, exvars, auxvars>>

\* dropping the Box<Resource>: Drop for FileResource runs sync
Close(h) ==
    /\ steps < MaxOps
    /\ files[h].kind # "closed"
    /\ IF IsFile(h)
       THEN \E g \in Leftover(files[h]) :
              LET r == FileSync(files[h], disk, g)
              IN  /\ disk' = r.disk
                  /\ ret' = Call("close", h, 0, r.val, <<>>, r.writes)
       ELSE /\ disk' = disk
            /\ ret' = Call("close", h, 0, TRUE, <<>>, <<>>)
    /\ files' = [files EXCEPT ![h] = Closed]
    /\ mvec' = [mvec EXCEPT ![h] = <<>>]
    /\ mseek' = [mseek EXCEPT ![h] = 0]
    /\ steps' = steps + 1
    /\ hist' = Logged([op |-> "close", arg |-> 0])
    /\ UNCHANGED <<nodes, exvars, auxvars>>

Next ==
    \E h \in Handles :
        \/ \E path \in Paths : Open(h, path)
        \/ \E n \in ReadLens : Read(h, n)
        \/ \E buf \in WriteBufs : Write(h, buf)
        \/ \E pos \in SeekArgs : Seek(h, pos)
        \/ Sync(h)
        \/ Close(h)

Spec == Init /\ [][Next]_vars

-----------------------------------------------------------------------------
(* FileSystem::from_disk *)

NameLen == 256

\* size_of::<NodeData>(): the 256 bytes of the name and 16 extents of 16 bytes
NodeDataSize == 512

\* 'R', 'E', 'D', 'O', 'X', 'F', 'S', '\0'
Magic == <<82, 69, 68, 79, 88, 70, 83, 0>>

\* the four bytes of the u32 0xFFFFFFFF
VersionBytes == <<255, 255, 255, 255>>

Header(signature, version, used) ==
    [signature |-> signature, version |-> version, extents |-> Extents(used)]

NodeData(name, used) ==
    [name |-> name \o Fill(NameLen - Len(name), 0), extents |-> Extents(used)]

\* the loop of Node::new: the bytes of the name field before the first 0
NodeName(field) ==
    LET nul == {i \in 1 .. Len(field) : field[i] = 0}
    IN  IF nul = {} THEN field
        ELSE SubSeq(field, 1, (CHOOSE i \in nul : \A j \in nul : i <= j) - 1)

\* Node::new
NodeNew(address, data) ==
    [address |-> address, name |-> NodeName(data.name), extents |-> data.extents]

\* a check of the first seven bytes of the signature and of the version
HeaderOkNoNul(header) ==
    /\ \A i \in 1 .. 7 : header.signature[i] = Magic[i]
    /\ header.version = VersionBytes

\* the test of the header in from_disk
HeaderOk(header) ==
    /\ header.signature[1] = 82
    /\ header.signature[2] = 69
    /\ header.signature[3] = 68
    /\ header.signature[4] = 79
    /\ header.signature[5] = 88
    /\ header.signature[6] = 70
    /\ header.signature[7] = 83
    /\ header.signature[8] = 0
    /\ header.version = VersionBytes

\* the disk.read calls from_disk makes for an extent of `sectors` sectors:
\* the count is a u16, 0 in the loop and the rest after it
RECURSIVE MountChunks(_, _)
MountChunks(sectors, sector) ==
    IF sectors - sector >= 65536
    THEN <<[sector |-> sector, count |-> 0]>> \o MountChunks(sectors, sector + 65535)
    ELSE IF sector < sectors
         THEN <<[sector |-> sector, count |-> (sectors - sector) % 65536]>>
         ELSE <<>>

\* a node for every record the sectors of the extent hold, whole or not
ExtentNodesCeil(table, extent) ==
    [i \in 1 .. SectorsOf(extent.length) |->
        NodeNew(extent.block + (i - 1), table[extent.block + (i - 1)])]

\* the nodes of one extent of the header: length / size_of NodeData records,
\* the i-th with address block + i
ExtentNodes(table, extent) ==
    [i \in 1 .. extent.length \div NodeDataSize |->
        NodeNew(extent.block + (i - 1), table[extent.block + (i - 1)])]

\* the extent loop of from_disk
RECURSIVE MountLoop(_, _, _)
MountLoop(image, st, i) ==
    IF i > NumExtents THEN st
    ELSE LET extent == image.header.extents[i]
             chunks == MountChunks(SectorsOf(extent.length), 0)
         IN  MountLoop(image,
                       IF Used(extent)
                       THEN [nodes |-> st.nodes \o ExtentNodes(image.table, extent),
                             reads |-> st.reads \o
                                 [k \in 1 .. Len(chunks) |->
                                     [block |-> extent.block + chunks[k].sector,
                                      count |-> chunks[k].count]]]
                       ELSE st,
                       i + 1)

\* FileSystem::from_disk: None without a disk, None after the read of sector
\* 1 when the header is not that of a Redox file system, else the node index
FromDisk(image) ==
    IF image.identify
    THEN IF HeaderOk(image.header)
         THEN LET st == MountLoop(image, [nodes |-> <<>>,
                                          reads |-> <<[block |-> 1, count |-> 1]>>], 1)
              IN  [some |-> TRUE, nodes |-> st.nodes, reads |-> st.reads]
         ELSE [some |-> FALSE, nodes |-> <<>>, reads |-> <<[block |-> 1, count |-> 1]>>]
    ELSE [some |-> FALSE, nodes |-> <<>>, reads |-> <<>>]

\* signatures: the magic, and the magic with one byte changed
Signatures == {Magic} \cup {[Magic EXCEPT ![i] = (@ + 1) % 256] : i \in 1 .. 8}
                      \cup {[Magic EXCEPT ![i] = @ + 32] : i \in 1 .. 7}

\* versions: 0xFFFFFFFF, with one byte changed, and 0
Versions == {VersionBytes, <<0, 0, 0, 0>>} \cup {[VersionBytes EXCEPT ![i] = 254] : i \in 1 .. 4}

\* the node tables a header can point at: none, one sector, the sector of a
\* name without a NUL, sectors with an unused slot between them and a last
\* record cut short, unused extents only
HeaderTables ==
    { <<>>,
      <<Extent(2, NodeDataSize)>>,
      <<NoExtent, Extent(4, NodeDataSize)>>,
      <<Extent(2, 2 * NodeDataSize), NoExtent, Extent(5, NodeDataSize + 88)>>,
      <<Extent(0, NodeDataSize), Extent(3, 0)>> }

\* sectors 2 to 6 of the disk, as node records
TableSectors ==
    [s \in 2 .. 6 |->
        CASE s = 2 -> NodeData(<<97>>, <<Extent(7, 5)>>)
          [] s = 3 -> NodeData(<<98, 47, 99>>, <<Extent(8, 5), NoExtent, Extent(9, 5)>>)
          [] s = 4 -> NodeData(Fill(NameLen, 100), <<Extent(10, 512)>>)
          [] s = 5 -> NodeData(<<>>, <<>>)
          [] s = 6 -> NodeData(<<97>>, <<Extent(10, 3)>>)]

Images ==
    [identify : BOOLEAN,
     header : {Header(sig, ver, used) : sig \in Signatures, ver \in Versions,
                                       used \in HeaderTables},
     table : {TableSectors}]

InitMount ==
    /\ boot \in [pc : {"boot"}, image : Images, some : {FALSE}, reads : {<<>>}]
    /\ nodes = <<>>
    /\ disk = InitDisk
    /\ files = [h \in Handles |-> Closed]
    /\ ret = Call("none", 0, 0, 0, <<>>, <<>>)
    /\ mvec = [h \in Handles |-> <<>>]
    /\ mseek = [h \in Handles |-> 0]
    /\ steps = 0
    /\ hist = <<>>
    /\ next_id = 1
    /\ exfiles = <<>>
    /\ exret = ExCall("none", 0, "Ok", 0)
    /\ expanic = FALSE
    /\ kernel = NoKernel
    /\ socket = NoSocket
    /\ exleft = -1
    /\ rte = NoReadToEnd

\* one call of from_disk by FileScheme::new, which tries each of four disks
Mount ==
    /\ boot.pc = "boot"
    /\ LET r == FromDisk(boot.image)
       IN  /\ boot' = [boot EXCEPT !.pc = "done", !.some = r.some, !.reads = r.reads]
           /\ nodes' = r.nodes
    /\ UNCHANGED <<steps, disk, files, ret, mvec, mseek, hist, exvars, rte, kernel>>

NextMount == Mount

SpecMount == InitMount /\ [][NextMount]_vars

-----------------------------------------------------------------------------
(* FileScheme::open of a directory: names and paths as their bytes *)

\* '/'
Slash == 47

\* '\n'
Newline == 10

\* String::starts_with
StartsWith(str, prefix) ==
    Len(prefix) <= Len(str) /\ SubSeq(str, 1, Len(prefix)) = prefix

\* String::ends_with
EndsWith(str, suffix) ==
    Len(suffix) <= Len(str) /\ SubSeq(str, Len(str) - Len(suffix) + 1, Len(str)) = suffix

\* String::substr(start, len)
Substr(str, start, len) == SubSeq(str, start + 1, start + len)

\* String::find of a one-byte string: the index of its first occurrence,
\* counted from 0, and -1 for None
Find(str, c) ==
    LET at == {i \in 1 .. Len(str) : str[i] = c}
    IN  IF at = {} THEN -1 ELSE (CHOOSE i \in at : \A j \in at : i <= j) - 1

\* FileSystem::list: of every node whose name starts with the directory, in
\* node order, the name after the directory
RECURSIVE List(_, _, _)
List(ns, directory, i) ==
    IF i > Len(ns) THEN <<>>
    ELSE (IF StartsWith(ns[i].name, directory)
          THEN <<Substr(ns[i].name, Len(directory), Len(ns[i].name) - Len(directory))>>
          ELSE <<>>)
         \o List(ns, directory, i + 1)

\* a line that repeats a directory name each time it is met
DirLineRepeat(file, dirs) ==
    LET index == Find(file, Slash)
    IN  IF index >= 0
        THEN [line |-> Substr(file, 0, index + 1), dirs |-> dirs]
        ELSE [line |-> file, dirs |-> dirs]

\* the line of one listed name: the name itself, or its directory when that
\* is met for the first time, or nothing
DirLine(file, dirs) ==
    LET index == Find(file, Slash)
        dirname == Substr(file, 0, index + 1)
    IN  IF index >= 0
        THEN IF \E k \in 1 .. Len(dirs) : dirs[k] = dirname
             THEN [line |-> <<>>, dirs |-> dirs]
             ELSE [line |-> dirname, dirs |-> Append(dirs, dirname)]
        ELSE [line |-> file, dirs |-> dirs]

\* the loop over the listed names in FileScheme::open
RECURSIVE DirLoop(_, _, _)
DirLoop(listed, i, st) ==
    IF i > Len(listed) THEN st
    ELSE LET r == DirLine(listed[i], st.dirs)
         IN  DirLoop(listed, i + 1,
                     [dirs |-> r.dirs,
                      list |-> IF Len(r.line) > 0
                               THEN IF Len(st.list) > 0
                                    THEN st.list \o <<Newline>> \o r.line
                                    ELSE r.line
                               ELSE st.list])

\* VecResource::new(url, ResourceType::Dir, vec)
DirResource(vec) == [kind |-> "dir", vec |-> vec, seek |-> 0]

\* FileScheme::open: the listing for an empty path and for a path that ends
\* in '/', the file or the none-resource for any other
SchemeOpen(ns, d, path) ==
    IF Len(path) = 0 \/ EndsWith(path, <<Slash>>)
    THEN DirResource(DirLoop(List(ns, path, 1), 1, [dirs |-> <<>>, list |-> <<>>]).list)
    ELSE FileOpen(ns, d, path)

\* node names: "a/b", "a/c", "d", "a/", "a", "a//b", "/x", "a/b/c", "da"
ListNames ==
    { <<97, 47, 98>>, <<97, 47, 99>>, <<100>>, <<97, 47>>, <<97>>, <<97, 47, 47, 98>>,
      <<47, 120>>, <<97, 47, 98, 47, 99>>, <<100, 97>> }

\* paths: "", "a/", "/", "a/b/", "d", "x"
ListPaths == {<<>>, <<97, 47>>, <<47>>, <<97, 47, 98, 47>>, <<100>>, <<120>>}

\* the node indexes of up to MaxNodes nodes without data, with addresses
\* from 2 on
ListNodes ==
    UNION {[1 .. n -> ListNames] : n \in 0 .. MaxNodes}

InitList ==
    /\ \E names \in ListNodes :
         nodes = [i \in 1 .. Len(names) |-> Node(i + 1, names[i], <<>>)]
    /\ disk = InitDisk
    /\ files = [h \in Handles |-> Closed]
    /\ ret = Call("none", 0, 0, 0, <<>>, <<>>)
    /\ mvec = [h \in Handles |-> <<>>]
    /\ mseek = [h \in Handles |-> 0]
    /\ steps = 0
    /\ hist = <<>>
    /\ next_id = 1
    /\ exfiles = <<>>
    /\ exret = ExCall("none", 0, "Ok", 0)
    /\ expanic = FALSE
    /\ kernel = NoKernel
    /\ socket = NoSocket
    /\ exleft = -1
    /\ rte = NoReadToEnd
    /\ boot = Booted

OpenUrl(h, path) ==
    /\ steps < MaxOps
    /\ files[h].kind = "closed"
    /\ LET r == SchemeOpen(nodes, disk, path)
       IN  /\ files' = [files EXCEPT ![h] = r]
           /\ mvec' = [mvec EXCEPT ![h] = IF r.kind = "none" THEN <<>> ELSE r.vec]
           /\ mseek' = [mseek EXCEPT ![h] = 0]
           /\ ret' = Call("open", h, path, 0, <<>>,
                          IF r.kind = "file" THEN OpenCalls(nodes, path) ELSE <<>>)
    /\ steps' = steps + 1
    /\ hist' = Logged([op |-> "open", arg |-> path])
    /\ UNCHANGED <<disk, nodes, exvars, auxvars>>

NextList == \E h \in Handles : \E path \in ListPaths : OpenUrl(h, path)

SpecList == InitList /\ [][NextList]_vars

-----------------------------------------------------------------------------
(* Two resources of one node *)

Handles2 == {1, 2}

TwoPaths == {"a", "b"}

TwoBufs == {<<65, 66>>, <<70, 71, 72, 73, 74, 75, 76>>}

\* FileScheme::open has returned a resource of the same node to two callers:
\* each holds its own clone of the node and its own buffer
InitTwo ==
    \E path \in TwoPaths :
        LET r == FileOpen(InitNodes, InitDisk, path)
        IN  /\ files = [h \in Handles2 |-> r]
            /\ mvec = [h \in Handles2 |-> r.vec]
            /\ mseek = [h \in Handles2 |-> 0]
            /\ disk = InitDisk
            /\ nodes = InitNodes
            /\ ret = Call("open", 2, path, 0, <<>>, OpenCalls(InitNodes, path))
            /\ steps = 0
            /\ hist = <<>>
            /\ next_id = 1
            /\ exfiles = <<>>
            /\ exret = ExCall("none", 0, "Ok", 0)
            /\ expanic = FALSE
            /\ kernel = NoKernel
            /\ socket = NoSocket
            /\ exleft = -1
            /\ rte = NoReadToEnd
            /\ boot = Booted

\* the calls reach the scheme one at a time, in any order of the two handles
NextTwo ==
    \E h \in Handles2 :
        \/ \E buf \in TwoBufs : Write(h, buf)
        \/ Sync(h)

SpecTwo == InitTwo /\ [][NextTwo]_vars

-----------------------------------------------------------------------------
(* Read::read_to_end over a FileResource, one read per step *)

\* buffer lengths around the 1024 bytes one read takes
RteLens ==
    {0, 1, ReadBufSize - 1, ReadBufSize, ReadBufSize + 1, 2 * ReadBufSize, 2 * ReadBufSize + 1}

\* positions from the start to the end of a buffer of length n
RteOffsets(n) == {0, 1, n \div 2, n - 1, n} \cap (0 .. n)

\* the resource of the empty file "e" after a write of n bytes
InitReadToEnd ==
    \E n \in RteLens :
        LET vec == SubSeq([i \in 1 .. n |-> i % 251], 1, n)
        IN  /\ files = [h \in Handles |->
                          [FileResource(InitNodes[4], vec) EXCEPT !.seek = n, !.dirty = n > 0]]
            /\ mvec = [h \in Handles |-> vec]
            /\ mseek = [h \in Handles |-> n]
            /\ disk = InitDisk
            /\ nodes = InitNodes
            /\ ret = Call("none", 0, 0, 0, <<>>, <<>>)
            /\ steps = 0
            /\ hist = <<>>
            /\ next_id = 1
            /\ exfiles = <<>>
            /\ exret = ExCall("none", 0, "Ok", 0)
            /\ expanic = FALSE
            /\ kernel = NoKernel
            /\ socket = NoSocket
            /\ exleft = -1
            /\ rte = NoReadToEnd
            /\ boot = Booted

\* the call of read_to_end: let mut read = 0, before the loop
ReadToEndCall(h) ==
    /\ rte.pc = "idle"
    /\ IsFile(h)
    /\ ret.op = "seek"
    /\ rte' = [pc |-> "loop", vec |-> <<>>, read |-> 0, calls |-> 0,
               buffer |-> files[h].vec, from |-> files[h].seek]
    /\ UNCHANGED <<fsvars, exvars, boot, kernel>>

\* one turn of the loop: a read into bytes, then Ok(0) ends the call and
\* Ok(count) pushes the bytes read
ReadToEndStep(h) ==
    /\ rte.pc = "loop"
    /\ LET r == FileRead(files[h], ZeroBytes)
       IN  /\ files' = [files EXCEPT ![h] = r.res]
           /\ mseek' = [mseek EXCEPT ![h] = @ + Min(ReadBufSize, Len(mvec[h]) - @)]
           /\ rte' = IF r.val = 0
                     THEN [rte EXCEPT !.pc = "done", !.calls = @ + 1]
                     ELSE [rte EXCEPT !.vec = PushBytes(@, r.out, r.val),
                                      !.read = @ + r.val, !.calls = @ + 1]
    /\ UNCHANGED <<steps, disk, nodes, ret, mvec, hist, exvars, boot, kernel>>

NextReadToEnd ==
    \E h \in Handles :
        \/ \E n \in RteOffsets(Len(files[h].vec)) : rte.pc = "idle" /\ Seek(h, Start(n))
        \/ ReadToEndCall(h)
        \/ ReadToEndStep(h)

\* a loop that has started keeps running
SpecReadToEnd ==
    InitReadToEnd /\ [][NextReadToEnd]_vars /\ WF_rte(\E h \in Handles : ReadToEndStep(h))

-----------------------------------------------------------------------------
(* The example provider: one action per packet it serves *)

\* a client makes one of the calls it has left
Spend == exleft # 0 /\ exleft' = IF exleft > 0 THEN exleft - 1 ELSE exleft

\* ExampleScheme::open; the increment of next_id wraps where the build has no
\* overflow check
ExOpen ==
    /\ ~expanic
    /\ Spend
    /\ Cardinality(DOMAIN exfiles) < MaxOpen
    /\ LET id == next_id
       IN  /\ next_id' = NextId(next_id)
           /\ exfiles' = MapInsert(exfiles, id, ExampleFile)
           /\ exret' = ExCall("open", id, "Ok", id)
    /\ UNCHANGED <<expanic, fsvars, auxvars>>

\* ExampleScheme::open where the build checks overflow: the increment of
\* next_id panics at the signed maximum, before the insert
ExOpenPanic ==
    /\ ~expanic
    /\ Spend
    /\ Cardinality(DOMAIN exfiles) < MaxOpen
    /\ next_id + 1 > MaxId
    /\ expanic' = TRUE
    /\ exret' = ExCall("open", next_id, "panic", 0)
    /\ UNCHANGED <<next_id, exfiles, fsvars, auxvars>>

\* a close that answers Ok(0) and keeps the entry
ExCloseKeep(id) ==
    /\ ~expanic
    /\ Spend
    /\ exfiles' = exfiles
    /\ exret' = IF id \in DOMAIN exfiles THEN ExCall("close", id, "Ok", 0)
                ELSE ExCall("close", id, "EBADF", 0)
    /\ UNCHANGED <<next_id, expanic, fsvars, auxvars>>

\* ExampleScheme::close
ExClose(id) ==
    /\ ~expanic
    /\ Spend
    /\ IF id \in DOMAIN exfiles
       THEN /\ exfiles' = MapRemove(exfiles, id)
            /\ exret' = ExCall("close", id, "Ok", 0)
       ELSE /\ exfiles' = exfiles
            /\ exret' = ExCall("close", id, "EBADF", 0)
    /\ UNCHANGED <<next_id, expanic, fsvars, auxvars>>

\* the loop of ExampleFile::read, run to its exit
ExFileRead(file, buf) ==
    LET i == IF file.seek < Len(file.data) THEN Min(Len(buf), Len(file.data) - file.seek)
             ELSE 0
    IN  [file |-> [file EXCEPT !.seek = @ + i],
         val |-> i,
         out |-> [k \in 1 .. Len(buf) |-> IF k <= i THEN file.data[file.seek + k] ELSE buf[k]]]

\* the loop of ExampleFile::write, run to its exit: it overwrites while the
\* position is inside the data and never extends them
ExFileWrite(file, buf) ==
    LET i == IF file.seek < Len(file.data) THEN Min(Len(buf), Len(file.data) - file.seek)
             ELSE 0
    IN  [file |-> [file EXCEPT
                     !.data = [k \in 1 .. Len(file.data) |->
                                  IF file.seek < k /\ k <= file.seek + i
                                  THEN buf[k - file.seek] ELSE file.data[k]],
                     !.seek = @ + i],
         val |-> i]

\* SEEK_SET, SEEK_CUR, SEEK_END
Whences == {0, 1, 2}

\* ExampleFile::seek: min(0, max(data.len(), target)) for the three known
\* values of whence, EINVAL for any other
ExFileSeek(file, offset, whence) ==
    LET target == CASE whence = 0 -> offset
                    [] whence = 1 -> file.seek + offset
                    [] whence = 2 -> Len(file.data) + offset
                    [] OTHER -> 0
        seek == Min(0, Max(Len(file.data), target))
    IN  IF whence \in Whences
        THEN [file |-> [file EXCEPT !.seek = seek], res |-> "Ok", val |-> seek]
        ELSE [file |-> file, res |-> "EINVAL", val |-> 0]

\* ExampleScheme::read
ExRead(id, n) ==
    /\ ~expanic
    /\ Spend
    /\ IF id \in DOMAIN exfiles
       THEN LET r == ExFileRead(exfiles[id], ReadBuf(n))
            IN  /\ exfiles' = [exfiles EXCEPT ![id] = r.file]
                /\ exret' = [ExCall("read", id, "Ok", r.val) EXCEPT !.out = r.out]
       ELSE /\ exfiles' = exfiles
            /\ exret' = ExCall("read", id, "EBADF", 0)
    /\ UNCHANGED <<next_id, expanic, fsvars, auxvars>>

\* ExampleScheme::write
ExWrite(id, buf) ==
    /\ ~expanic
    /\ Spend
    /\ IF id \in DOMAIN exfiles
       THEN LET r == ExFileWrite(exfiles[id], buf)
            IN  /\ exfiles' = [exfiles EXCEPT ![id] = r.file]
                /\ exret' = ExCall("write", id, "Ok", r.val)
       ELSE /\ exfiles' = exfiles
            /\ exret' = ExCall("write", id, "EBADF", 0)
    /\ UNCHANGED <<next_id, expanic, fsvars, auxvars>>

\* ExampleScheme::seek
ExSeek(id, pos, whence) ==
    /\ ~expanic
    /\ Spend
    /\ IF id \in DOMAIN exfiles
       THEN LET r == ExFileSeek(exfiles[id], pos, whence)
            IN  /\ exfiles' = [exfiles EXCEPT ![id] = r.file]
                /\ exret' = ExCall("seek", id, r.res, r.val)
       ELSE /\ exfiles' = exfiles
            /\ exret' = ExCall("seek", id, "EBADF", 0)
    /\ UNCHANGED <<next_id, expanic, fsvars, auxvars>>

\* a sync that answers Ok(0) for any id
ExSyncAnyId(id) ==
    /\ ~expanic
    /\ Spend
    /\ exfiles' = exfiles
    /\ exret' = ExCall("sync", id, "Ok", 0)
    /\ UNCHANGED <<next_id, expanic, fsvars, auxvars>>

\* ExampleScheme::sync; ExampleFile::sync is Ok(0)
ExSync(id) ==
    /\ ~expanic
    /\ Spend
    /\ exfiles' = exfiles
    /\ exret' = IF id \in DOMAIN exfiles THEN ExCall("sync", id, "Ok", 0)
                ELSE ExCall("sync", id, "EBADF", 0)
    /\ UNCHANGED <<next_id, expanic, fsvars, auxvars>>

ExIds == 0 .. MaxId

\* the ids of the first two opens, and one no open has given
CallIds == {0, 1, 2}

\* seek arguments: one of each known whence and one unknown
ExSeekArgs == {<<2, 0>>, <<1, 1>>, <<-1, 2>>, <<0, 2>>, <<0, 3>>}

\* the provider after ExampleScheme::new, with clients that make MaxCalls calls
InitCalls ==
    /\ disk = InitDisk
    /\ nodes = InitNodes
    /\ files = [h \in Handles |-> Closed]
    /\ ret = Call("none", 0, 0, 0, <<>>, <<>>)
    /\ mvec = [h \in Handles |-> <<>>]
    /\ mseek = [h \in Handles |-> 0]
    /\ steps = 0
    /\ hist = <<>>
    /\ next_id = 1
    /\ exfiles = <<>>
    /\ exret = ExCall("none", 0, "Ok", 0)
    /\ expanic = FALSE
    /\ kernel = NoKernel
    /\ socket = NoSocket
    /\ exleft = MaxCalls
    /\ rte = NoReadToEnd
    /\ boot = Booted

\* Scheme::handle: one packet, one call
NextCalls ==
    \/ ExOpen /\ UNCHANGED socket
    \/ \E id \in CallIds :
          \/ ExRead(id, 3) /\ UNCHANGED socket
          \/ ExWrite(id, <<65, 66>>) /\ UNCHANGED socket
          \/ \E a \in ExSeekArgs : ExSeek(id, a[1], a[2]) /\ UNCHANGED socket
          \/ ExSync(id) /\ UNCHANGED socket
          \/ ExClose(id) /\ UNCHANGED socket

SpecCalls == InitCalls /\ [][NextCalls]_vars

NextExample ==
    \/ ExOpen /\ UNCHANGED socket
    \/ ExOpenPanic /\ UNCHANGED socket
    \/ \E id \in ExIds : ExClose(id) /\ UNCHANGED socket

SpecExample == Init /\ [][NextExample]_vars

\* the calls that take the id counter to its wrap: opens, with the oldest
\* files closed to make room, and the other operations on the first id
NextCounter ==
    \/ ExOpen /\ UNCHANGED socket
    \/ ExOpenPanic /\ UNCHANGED socket
    \/ \E id \in DOMAIN exfiles :
          /\ \A other \in DOMAIN exfiles : id <= other
          /\ ExClose(id)
          /\ UNCHANGED socket
    \/ ExRead(1, 3) /\ UNCHANGED socket
    \/ ExWrite(1, Fill(Len(ExampleFile.data), 88)) /\ UNCHANGED socket
    \/ ExSeek(1, 2, 0) /\ UNCHANGED socket
    \/ ExSync(1) /\ UNCHANGED socket

SpecCounter == Init /\ [][NextCounter]_vars

-----------------------------------------------------------------------------
(* The example provider behind its socket: the loop of main *)

\* packets the loop reads before its clients stop sending
MaxPackets == 3

\* the words of a packet that carry the request: operation, handle id and
\* two arguments
PacketWords == 4

\* the requests the clients send
Packets ==
    {Packet("open", 0, 0, 0), Packet("read", 1, 3, 0), Packet("write", 1, 2, 0),
     Packet("seek", 1, 2, 0), Packet("seek", 1, 0, 3), Packet("sync", 2, 0, 0),
     Packet("truncate", 1, 0, 0), Packet("close", 1, 0, 0)}

\* what socket.read returns: an error, 0 at the end of the stream, or the
\* number of words it filled in
ReadCounts == -1 .. PacketWords

\* the packet after a read that filled in its first n words: the others keep
\* the value Packet::default() gave them
Filled(p, n) ==
    Packet(p.op, IF n >= 2 THEN p.id ELSE 0, IF n >= 3 THEN p.a ELSE 0,
           IF n >= 4 THEN p.b ELSE 0)

\* the error numbers of system::error
Errno(res) ==
    CASE res = "ENOENT" -> 2
      [] res = "EBADF" -> 9
      [] res = "EINVAL" -> 22

\* the result word of a reply: the value, or the negated error number
Mux(res, val) == IF res = "Ok" THEN val ELSE 0 - Errno(res)

\* the bytes a write request points at
WriteData == <<65, 66>>

\* ExampleScheme::truncate
ExTruncate(id) ==
    /\ ~expanic
    /\ Spend
    /\ exfiles' = exfiles
    /\ exret' = ExCall("truncate", id, "EBADF", 0)
    /\ UNCHANGED <<next_id, expanic, fsvars, auxvars>>

\* the provider after ExampleScheme::new and File::create(":example")
InitServer ==
    /\ disk = InitDisk
    /\ nodes = InitNodes
    /\ files = [h \in Handles |-> Closed]
    /\ ret = Call("none", 0, 0, 0, <<>>, <<>>)
    /\ mvec = [h \in Handles |-> <<>>]
    /\ mseek = [h \in Handles |-> 0]
    /\ steps = 0
    /\ hist = <<>>
    /\ next_id = 1
    /\ exfiles = <<>>
    /\ exret = ExCall("none", 0, "Ok", 0)
    /\ expanic = FALSE
    /\ kernel = NoKernel
    /\ exleft = -1
    /\ rte = NoReadToEnd
    /\ boot = Booted
    /\ socket = [NoSocket EXCEPT !.pc = "read"]

\* let mut packet = Packet::default(); socket.read(&mut packet).unwrap() and
\* the test of its count against 0
ServerRead ==
    /\ socket.pc = "read"
    /\ socket.reads < MaxPackets
    /\ \E p \in Packets, n \in ReadCounts :
          /\ p.op = "open" => Cardinality(DOMAIN exfiles) < MaxOpen
          /\ socket' = IF n <= 0
                        THEN [socket EXCEPT !.pc = "dead", !.count = n,
                                            !.packet = Packet("none", 0, 0, 0)]
                        ELSE [socket EXCEPT !.pc = "handle", !.count = n,
                                            !.packet = Filled(p, n),
                                            !.reads = @ + 1]
    /\ UNCHANGED <<next_id, exfiles, exret, expanic, exleft, fsvars, auxvars>>

\* scheme.handle(&mut packet): the call the operation code names, and its
\* result stored in the packet
ServerHandle ==
    /\ socket.pc = "handle"
    /\ LET p == socket.packet
       IN  \/ p.op = "open" /\ ExOpen
           \/ p.op = "read" /\ ExRead(p.id, p.a)
           \/ p.op = "write" /\ ExWrite(p.id, SubSeq(WriteData, 1, p.a))
           \/ p.op = "seek" /\ ExSeek(p.id, p.a, p.b)
           \/ p.op = "sync" /\ ExSync(p.id)
           \/ p.op = "truncate" /\ ExTruncate(p.id)
           \/ p.op = "close" /\ ExClose(p.id)
    /\ socket' = [socket EXCEPT !.pc = "write",
                                !.packet.result = Mux(exret'.res, exret'.val)]

\* a loop that writes back only the packets whose operation succeeded
ServerWriteOk ==
    /\ socket.pc = "write"
    /\ socket' = [socket EXCEPT
                     !.pc = "read",
                     !.sent = IF socket.packet.result >= 0
                              THEN Append(@, [tag |-> socket.reads,
                                              result |-> socket.packet.result])
                              ELSE @]
    /\ UNCHANGED <<next_id, exfiles, exret, expanic, exleft, fsvars, auxvars>>

\* socket.write(&packet).unwrap(), and the end of the loop body
ServerWrite ==
    /\ socket.pc = "write"
    /\ socket' = [socket EXCEPT
                     !.pc = "read",
                     !.sent = Append(@, [tag |-> socket.reads,
                                         result |-> socket.packet.result])]
    /\ UNCHANGED <<next_id, exfiles, exret, expanic, exleft, fsvars, auxvars>>

NextServer ==
    \/ ServerRead
    \/ ServerHandle
    \/ ServerWrite

\* the provider is a process that is scheduled: once it holds a packet it
\* goes on to dispatch it and to write it back; a read waits for a client
SpecServer ==
    InitServer /\ [][NextServer]_vars /\ WF_socket(ServerHandle) /\ WF_socket(ServerWrite)

-----------------------------------------------------------------------------
(* The transfer of one extent: the device calls of its chunk loop *)

\* the largest number of full chunks in an extent
MaxFull == 3

\* how far from a whole number of full chunks the extents are
ChunkSlack == 4

\* the sector counts of the extents transferred
ChunkSectors ==
    {k * MaxChunk + d : k \in 0 .. MaxFull, d \in -ChunkSlack .. ChunkSlack} \ (-ChunkSlack .. 0)

\* an extent of ret.arg sectors is about to be transferred
InitChunks ==
    /\ disk = InitDisk
    /\ nodes = InitNodes
    /\ files = [h \in Handles |-> Closed]
    /\ ret \in {Call("none", 0, sectors, 0, <<>>, <<>>) : sectors \in ChunkSectors}
    /\ mvec = [h \in Handles |-> <<>>]
    /\ mseek = [h \in Handles |-> 0]
    /\ steps = 0
    /\ hist = <<>>
    /\ next_id = 1
    /\ exfiles = <<>>
    /\ exret = ExCall("none", 0, "Ok", 0)
    /\ expanic = FALSE
    /\ kernel = NoKernel
    /\ socket = NoSocket
    /\ exleft = -1
    /\ rte = NoReadToEnd
    /\ boot = Booted

\* the chunk loop of from_disk for one extent of the header
TransferMount ==
    /\ ret.op = "none"
    /\ ret' = Call("mount", 0, ret.arg, 0, <<>>, MountChunks(ret.arg, 0))
    /\ UNCHANGED <<steps, disk, nodes, files, mvec, mseek, hist, exvars, auxvars>>

\* the chunk loop of FileScheme::open for one extent of the node
TransferOpen ==
    /\ ret.op = "none"
    /\ ret' = Call("open", 0, ret.arg, 0, <<>>, OpenChunks(ret.arg, 0))
    /\ UNCHANGED <<steps, disk, nodes, files, mvec, mseek, hist, exvars, auxvars>>

\* the chunk loop of FileResource::sync for one extent of the node
TransferSync ==
    /\ ret.op = "none"
    /\ ret' = Call("sync", 0, ret.arg, 0, <<>>, SyncChunks(ret.arg, 0))
    /\ UNCHANGED <<steps, disk, nodes, files, mvec, mseek, hist, exvars, auxvars>>

NextChunks ==
    \/ TransferMount
    \/ TransferOpen
    \/ TransferSync

SpecChunks == InitChunks /\ [][NextChunks]_vars

-----------------------------------------------------------------------------
(* Interrupt masking: sync and the open of the context scheme, step by step *)

\* the most interrupts that arrive during one operation
MaxIrqs == 2

\* the most contexts the scheduler holds
MaxContexts == 2

\* the pairs (context_i, contexts.len()) the scheduler can be in
ContextPairs == {<<i, n>> : i \in 0 .. MaxContexts - 1, n \in 1 .. MaxContexts} \ {<<1, 1>>}

\* scheduler::start_no_ints: the token says whether interrupts were enabled
StartNoInts(k) == [k EXCEPT !.reenable = k.ints, !.ints = FALSE, !.depth = @ + 1]

\* scheduler::end_no_ints(reenable): enables interrupts when the token says so
EndNoInts(k) == [k EXCEPT !.ints = (k.reenable \/ @), !.depth = @ - 1]

\* the decimal digits of a number, as String + usize appends them
RECURSIVE Digits(_)
Digits(n) == IF n < 10 THEN <<48 + n>> ELSE Digits(n \div 10) \o <<48 + (n % 10)>>

\* ("Current: ".to_string() + i + "\nTotal: " + len).to_utf8()
ContextBytes(i, len) ==
    <<67, 117, 114, 114, 101, 110, 116, 58, 32>> \o Digits(i)
        \o <<Newline, 84, 111, 116, 97, 108, 58, 32>> \o Digits(len)

\* the buffers written to the resource before the sync: the empty one
\* leaves it clean
IntBufs == {<<>>, <<70, 71, 72, 73, 74, 75, 76>>, Fill(BigLen, 88)}

\* the resources a sync is called on, and none for an open of the context
\* scheme
IntResources ==
    {FileWrite(FileOpen(InitNodes, InitDisk, path), buf).res :
        path \in TwoPaths, buf \in IntBufs} \cup {Closed}

\* one operation is about to be called: a sync of a resource that is open,
\* or an open of the context scheme; interrupts are enabled or, as inside a
\* caller's own section, disabled
InitInts ==
    \E r \in IntResources, ints \in BOOLEAN :
            /\ files = [h \in Handles |-> r]
            /\ mvec = [h \in Handles |-> IF r.kind = "closed" THEN <<>> ELSE r.vec]
            /\ mseek = [h \in Handles |-> IF r.kind = "closed" THEN 0 ELSE r.seek]
            /\ disk = InitDisk
            /\ nodes = InitNodes
            /\ ret = Call("write", 1, 0, 0, <<>>, <<>>)
            /\ steps = 0
            /\ hist = <<>>
            /\ next_id = 1
            /\ exfiles = <<>>
            /\ exret = ExCall("none", 0, "Ok", 0)
            /\ expanic = FALSE
            /\ socket = NoSocket
            /\ exleft = -1
            /\ rte = NoReadToEnd
            /\ boot = Booted
            /\ kernel = [NoKernel EXCEPT !.ints = ints,
                                         !.call = IF r.kind = "closed" THEN "context" ELSE "sync"]

\* an interrupt: the scheduler switches context, a process is created or
\* exits; the handler returns with the interrupt flag as it found it
Interrupt ==
    /\ kernel.ints
    /\ kernel.pc # "idle"
    /\ kernel.irqs < MaxIrqs
    /\ \E p \in ContextPairs \ {<<kernel.context_i, kernel.contexts>>} :
          kernel' = [kernel EXCEPT !.context_i = p[1], !.contexts = p[2],
                                   !.held = @ \cup {p}, !.irqs = @ + 1]
    /\ UNCHANGED <<fsvars, exvars, rte, boot>>

\* FileResource::sync is called: a clean resource returns at once
SyncEnter(h) ==
    /\ kernel.pc = "idle"
    /\ kernel.call = "sync"
    /\ kernel.runs = 0
    /\ IsFile(h)
    /\ IF files[h].dirty
       THEN /\ \E g \in Garbage :
                 kernel' = [kernel EXCEPT !.pc = "sync", !.h = h, !.slot = 1, !.pos = 0,
                                          !.remaining = Len(files[h].vec), !.g = g,
                                          !.entry = kernel.ints, !.masked = TRUE,
                                          !.want = FileSync(files[h], disk, g).disk]
            /\ ret' = ret
       ELSE /\ kernel' = [kernel EXCEPT !.runs = @ + 1, !.entry = kernel.ints]
            /\ ret' = Call("sync", h, 0, TRUE, <<>>, <<>>)
    /\ UNCHANGED <<steps, disk, nodes, files, mvec, mseek, hist, exvars, rte, boot>>

\* the extent loop at a slot that is not a valid extent
SyncSkip ==
    /\ kernel.pc = "sync"
    /\ kernel.slot <= NumExtents
    /\ ~Used(files[kernel.h].node.extents[kernel.slot])
    /\ kernel' = [kernel EXCEPT !.slot = @ + 1]
    /\ UNCHANGED <<fsvars, exvars, rte, boot>>

\* the extent loop at a valid extent, up to and with start_no_ints()
SyncStartNoInts ==
    /\ kernel.pc = "sync"
    /\ kernel.slot <= NumExtents
    /\ LET extent == files[kernel.h].node.extents[kernel.slot]
           current_sectors == SectorsOf(extent.length)
           max_size == current_sectors * 512
           size == Min(kernel.remaining, max_size)
           sectors == SectorsOf(size)
       IN  /\ Used(extent)
           /\ files' = IF size # extent.length
                       THEN [files EXCEPT ![kernel.h].node.extents[kernel.slot].length = size]
                       ELSE files
           /\ kernel' = [StartNoInts(kernel) EXCEPT !.pc = "write", !.size = size,
                                                    !.chunks = SyncChunks(sectors, 0)]
    /\ UNCHANGED <<steps, disk, nodes, ret, mvec, mseek, hist, exvars, rte, boot>>

\* one disk.write of the section
SyncDiskWrite ==
    /\ kernel.pc = "write"
    /\ kernel.chunks # <<>>
    /\ LET c == Head(kernel.chunks)
           extent == files[kernel.h].node.extents[kernel.slot]
           src == MemAt(files[kernel.h].vec, kernel.pos + c.sector * BlockSize,
                        c.count * BlockSize, kernel.g)
       IN  disk' = DiskWrite(disk, extent.block + c.sector, c.count, src)
    /\ kernel' = [kernel EXCEPT !.chunks = Tail(@), !.masked = @ /\ ~kernel.ints]
    /\ UNCHANGED <<steps, nodes, files, ret, mvec, mseek, hist, exvars, rte, boot>>

\* a section that is left without end_no_ints
SyncEndSkipped ==
    /\ kernel.pc = "write"
    /\ kernel.chunks = <<>>
    /\ kernel' = [kernel EXCEPT !.depth = @ - 1, !.pc = "sync", !.slot = @ + 1,
                                !.pos = @ + kernel.size,
                                !.remaining = @ - kernel.size]
    /\ UNCHANGED <<fsvars, exvars, rte, boot>>

\* end_no_ints(reenable) and the end of the loop body
SyncEndNoInts ==
    /\ kernel.pc = "write"
    /\ kernel.chunks = <<>>
    /\ kernel' = [EndNoInts(kernel) EXCEPT !.pc = "sync", !.slot = @ + 1,
                                           !.pos = @ + kernel.size,
                                           !.remaining = @ - kernel.size]
    /\ UNCHANGED <<fsvars, exvars, rte, boot>>

\* after the loop: dirty = false and the result
SyncReturn ==
    /\ kernel.pc = "sync"
    /\ kernel.slot > NumExtents
    /\ files' = [files EXCEPT ![kernel.h].dirty = FALSE]
    /\ ret' = Call("sync", kernel.h, 0, ~(kernel.remaining > 0), <<>>, <<>>)
    /\ kernel' = [kernel EXCEPT !.pc = "idle", !.runs = @ + 1]
    /\ UNCHANGED <<steps, disk, nodes, mvec, mseek, hist, exvars, rte, boot>>

\* ContextScheme::open is called
ContextEnter ==
    /\ kernel.pc = "idle"
    /\ kernel.call = "context"
    /\ kernel.runs = 0
    /\ kernel' = [kernel EXCEPT !.pc = "start", !.entry = kernel.ints,
                                !.held = {<<kernel.context_i, kernel.contexts>>}]
    /\ UNCHANGED <<fsvars, exvars, rte, boot>>

\* an open that takes the token and leaves the interrupts as they are
ContextStartUnmasked ==
    /\ kernel.pc = "start"
    /\ kernel' = [kernel EXCEPT !.reenable = kernel.ints, !.depth = @ + 1, !.pc = "i"]
    /\ UNCHANGED <<fsvars, exvars, rte, boot>>

\* let reenable = scheduler::start_no_ints()
ContextStartNoInts ==
    /\ kernel.pc = "start"
    /\ kernel' = [StartNoInts(kernel) EXCEPT !.pc = "i"]
    /\ UNCHANGED <<fsvars, exvars, rte, boot>>

\* i = context_i
ContextReadI ==
    /\ kernel.pc = "i"
    /\ kernel' = [kernel EXCEPT !.i = kernel.context_i, !.pc = "len"]
    /\ UNCHANGED <<fsvars, exvars, rte, boot>>

\* len = (*contexts_ptr).len()
ContextReadLen ==
    /\ kernel.pc = "len"
    /\ kernel' = [kernel EXCEPT !.len = kernel.contexts, !.pc = "end"]
    /\ UNCHANGED <<fsvars, exvars, rte, boot>>

\* scheduler::end_no_ints(reenable)
ContextEndNoInts ==
    /\ kernel.pc = "end"
    /\ kernel' = [EndNoInts(kernel) EXCEPT !.pc = "return"]
    /\ UNCHANGED <<fsvars, exvars, rte, boot>>

\* the VecResource with the buffer is returned
ContextReturn ==
    /\ kernel.pc = "return"
    /\ ret' = Call("context", 0, 0, 0, ContextBytes(kernel.i, kernel.len), <<>>)
    /\ kernel' = [kernel EXCEPT !.pc = "idle", !.runs = @ + 1]
    /\ UNCHANGED <<steps, disk, nodes, files, mvec, mseek, hist, exvars, rte, boot>>

NextInts ==
    \/ Interrupt
    \/ \E h \in Handles : SyncEnter(h)
    \/ SyncSkip
    \/ SyncStartNoInts
    \/ SyncDiskWrite
    \/ SyncEndNoInts
    \/ SyncReturn
    \/ ContextEnter
    \/ ContextStartNoInts
    \/ ContextReadI
    \/ ContextReadLen
    \/ ContextEndNoInts
    \/ ContextReturn

SpecInts == InitInts /\ [][NextInts]_vars

-----------------------------------------------------------------------------
(* Properties of the FileResource *)


OpenFiles == {h \in Handles : IsFile(h)}

\* C1: after open and any sequence of read, write, seek and sync, the
\* position of a FileResource lies in [0, buffer.len], ends included.
C1_SeekWithinBuffer ==
    \A h \in OpenFiles : 0 <= files[h].seek /\ files[h].seek <= Len(files[h].vec)

\* a seek past the end of the 5-byte file "a" has moved the position to 7
C1_Witness ==
    \E h \in OpenFiles :
        /\ ret.op = "seek" /\ ret.arg = Start(7)
        /\ files[h].node.name = "a"
        /\ files[h].seek = 7 /\ Len(files[h].vec) = 7

\* seek(Start(0)) followed by read_to_end
ReadAll(f) == ReadToEnd(FileSeek(f, Start(0)).res, <<>>, 0).vec

\* C2: after every step the (buffer, seek) of a FileResource equals the
\* reference byte array and position (write overwrites at the position and
\* extends past the end, seek past the end zero-fills), and reading the whole
\* file from offset 0 returns the reference bytes.
C2_MatchesByteArray ==
    \A h \in OpenFiles :
        /\ files[h].vec = mvec[h]
        /\ files[h].seek = mseek[h]
        /\ ReadAll(files[h]) = mvec[h]

\* a write that overwrote the tail of the file and appended, after a seek
C2_Witness ==
    \E h \in OpenFiles :
        /\ Len(hist) = 3 /\ hist[2].op = "seek" /\ hist[3].op = "write"
        /\ ret.arg = <<70, 71, 72, 73, 74, 75, 76>>
        /\ files[h].node.name = "b"
        /\ Len(files[h].vec) = 14
        /\ files[h].seek = 14

IsPrefix(b, v) == Len(b) <= Len(v) /\ \A k \in 1 .. Len(b) : v[k] = b[k]

\* the byte length of a node: the lengths of its used extents, summed
NodeLength(extents) ==
    SumTo([i \in 1 .. NumExtents |->
              IF extents[i].block > 0 /\ extents[i].length > 0
              THEN extents[i].length ELSE 0], NumExtents)

\* the bytes a node's used extents can hold: whole sectors
NodeCapacity(extents) ==
    SumTo([i \in 1 .. NumExtents |->
              IF extents[i].block > 0 /\ extents[i].length > 0
              THEN ((extents[i].length + 511) \div 512) * 512 ELSE 0], NumExtents)

\* C3: after open, write(bytes) at offset 0 and sync, a new open of the same
\* path has a buffer whose first bytes.len bytes are bytes, when the
\* write fitted in the node's extents (here: within the node's byte length).
C3_ReopenReadsWhatWasWritten ==
    \A h \in OpenFiles :
        ( /\ Len(hist) = 3
          /\ hist[1].op = "open" /\ hist[2].op = "write" /\ hist[3].op = "sync"
          /\ Len(hist[2].arg) <= NodeLength(nodes[NodeIndex(nodes, hist[1].arg, 1)].extents) )
        => LET again == FileOpen(nodes, disk, hist[1].arg)
           IN  again.kind = "file" /\ IsPrefix(hist[2].arg, again.vec)

\* the on-disk contents of a node's used extents, in slot order
ExtentContents(d, extents) ==
    LET slot(i) == IF extents[i].block > 0 /\ extents[i].length > 0
                   THEN SubSeq(d[extents[i].block], 1, extents[i].length)
                   ELSE <<>>
    IN  slot(1) \o slot(2) \o slot(3) \o slot(4) \o slot(5) \o slot(6) \o slot(7)
        \o slot(8) \o slot(9) \o slot(10) \o slot(11) \o slot(12) \o slot(13)
        \o slot(14) \o slot(15) \o slot(16)

\* C4: in every reachable state of a FileResource, dirty = false implies
\* that the buffer is the concatenation, in extent order, of the on-disk
\* contents of the node's used extents.
C4_CleanBufferIsOnDisk ==
    \A h \in OpenFiles :
        ~files[h].dirty => files[h].vec = ExtentContents(disk, files[h].node.extents)

\* C5: sync on a dirty FileResource returns true when the buffer fits in the
\* whole sectors of the node's used extents and false when bytes remain
\* after the last extent, and leaves dirty false in both cases; a 512-byte
\* single extent with a 600-byte buffer gives false.
C5_SyncReportsFit ==
    [][\A h \in OpenFiles :
          (ret'.op = "sync" /\ ret'.h = h /\ files[h].dirty)
          => /\ ret'.val = (Len(files[h].vec) <= NodeCapacity(files[h].node.extents))
             /\ ~files'[h].dirty
             /\ ( /\ NodeCapacity(files[h].node.extents) = 512
                  /\ Len(files[h].vec) = 600 ) => ret'.val = FALSE]_vars

\* "c" has one extent of 512 bytes; a write of BigLen bytes, then sync
C5_Witness ==
    \E h \in OpenFiles :
        /\ Len(hist) = 3 /\ hist[2].op = "write" /\ hist[3].op = "sync"
        /\ files[h].node.name = "c"
        /\ Len(files[h].vec) = BigLen
        /\ ret.val = FALSE
        /\ ~files[h].dirty

\* C7: read(buf) copies n = min(buf.len, buffer.len - seek) bytes,
\* buffer[seek .. seek + n), into buf[0 .. n), leaves the rest of buf alone,
\* advances seek by n, returns n (0 at the end of the file), and changes
\* neither the buffer nor the dirty flag.
C7_ReadCopiesAndAdvances ==
    [][\A h \in OpenFiles :
          (ret'.op = "read" /\ ret'.h = h)
          => LET f == files[h]
                 left == Len(f.vec) - f.seek
                 n == IF ret'.arg < left THEN ret'.arg ELSE left
             IN  /\ ret'.val = n
                 /\ Len(ret'.out) = ret'.arg
                 /\ \A k \in 1 .. ret'.arg :
                       ret'.out[k] = IF k <= n THEN f.vec[f.seek + k] ELSE ReadBuf(ret'.arg)[k]
                 /\ files'[h].seek = f.seek + n
                 /\ files'[h].vec = f.vec
                 /\ files'[h].dirty = f.dirty
                 /\ files'[h].node = f.node
                 /\ (f.seek = Len(f.vec) => ret'.val = 0)
                 /\ disk' = disk]_vars

\* a read of 3 that found only 2 bytes left before the end of "a"
C7_Witness ==
    \E h \in OpenFiles :
        /\ ret.op = "read" /\ ret.arg = 3 /\ ret.val = 2
        /\ ret.out[3] = ReadBuf(3)[3]
        /\ files[h].seek = Len(files[h].vec)

\* C8: write(buf) at position s overwrites buffer[s ..] with the leading
\* bytes of buf, appends the rest, leaves every byte outside [s, s + buf.len)
\* as it was, advances seek by buf.len, sets dirty when buf is not empty,
\* returns buf.len, and leaves buffer.len = max(old buffer.len, s + buf.len).
C8_WriteOverwritesAndExtends ==
    [][\A h \in OpenFiles :
          (ret'.op = "write" /\ ret'.h = h)
          => LET f == files[h]
                 buf == ret'.arg
                 s == f.seek
                 g == files'[h]
             IN  /\ ret'.val = Len(buf)
                 /\ g.seek = s + Len(buf)
                 /\ Len(g.vec) = (IF Len(f.vec) > s + Len(buf) THEN Len(f.vec) ELSE s + Len(buf))
                 /\ \A k \in 1 .. Len(buf) : g.vec[s + k] = buf[k]
                 /\ \A k \in 1 .. Len(f.vec) : (k <= s \/ k > s + Len(buf)) => g.vec[k] = f.vec[k]
                 /\ (Len(buf) > 0 => g.dirty)
                 /\ g.node = f.node
                 /\ disk' = disk]_vars

\* a 7-byte write at position 3 of the 5-byte file "a": 2 bytes overwritten,
\* 5 appended
C8_Witness ==
    \E h \in OpenFiles :
        /\ ret.op = "write" /\ Len(ret.arg) = 7
        /\ files[h].node.name = "a"
        /\ files[h].seek = 10 /\ Len(files[h].vec) = 10
        /\ files[h].vec[3] = 16 * 7 + 3 /\ files[h].vec[4] = 70
        /\ files[h].dirty

\* C9: write with a zero-length buffer changes nothing: buffer, seek and
\* dirty stay as they were, and a sync of a clean resource issues no disk
\* write.
C9_EmptyWriteIsNoOp ==
    [][\A h \in OpenFiles :
          /\ (ret'.op = "write" /\ ret'.h = h /\ ret'.arg = <<>>)
             => files'[h] = files[h] /\ ret'.val = 0 /\ disk' = disk
          /\ (ret'.op = "sync" /\ ret'.h = h /\ ~files[h].dirty)
             => disk' = disk /\ ret'.writes = <<>> /\ files'[h] = files[h]]_vars

\* an empty write on a freshly opened file, then a sync that wrote nothing
C9_Witness ==
    \E h \in OpenFiles :
        /\ Len(hist) = 3
        /\ hist[2].op = "write" /\ hist[2].arg = <<>>
        /\ hist[3].op = "sync"
        /\ ret.writes = <<>>
        /\ ~files[h].dirty
        /\ disk = InitDisk

\* C10: seek sets and returns the new position: Start(o) gives o,
\* Current(o) gives max(0, seek + o), End(o) gives max(0, buffer.len + o);
\* so End(-k) gives buffer.len - k for 0 <= k <= buffer.len and 0 beyond.
C10_SeekPosition ==
    [][\A h \in OpenFiles :
          (ret'.op = "seek" /\ ret'.h = h)
          => LET f == files[h]
                 o == ret'.arg.offset
                 w == ret'.arg.whence
                 base == IF w = "Start" THEN 0
                         ELSE IF w = "Current" THEN f.seek ELSE Len(f.vec)
                 new == IF base + o < 0 THEN 0 ELSE base + o
             IN  /\ ret'.val = new
                 /\ files'[h].seek = new
                 /\ (w = "End" /\ o <= 0 /\ 0 - o <= Len(f.vec))
                       => files'[h].seek = Len(f.vec) - (0 - o)
                 /\ (w = "End" /\ 0 - o > Len(f.vec)) => files'[h].seek = 0]_vars

\* End(-8) on the 5-byte file "a" clamps to 0
C10_Witness ==
    \E h \in OpenFiles :
        /\ ret.op = "seek" /\ ret.arg = End(-8) /\ ret.val = 0
        /\ files[h].node.name = "a" /\ Len(files[h].vec) = 5
        /\ files[h].seek = 0
        /\ Len(hist) = 3 /\ hist[2].op = "read"

\* C11: a seek to a position past the end of the buffer appends zero bytes up
\* to exactly the new position and keeps the bytes that were there; a seek
\* to a position within the buffer leaves the buffer as it was. On an empty
\* file, seek(Start(4)), write("X") and a read from offset 0 give four zero
\* bytes and then "X".
C11_SeekZeroFills ==
    [][\A h \in Handles :
          /\ (ret'.op = "seek" /\ ret'.h = h /\ IsFile(h))
             => LET old == files[h].vec
                    new == files'[h].seek
                IN  IF new > Len(old)
                    THEN /\ Len(files'[h].vec) = new
                         /\ SubSeq(files'[h].vec, 1, Len(old)) = old
                         /\ \A k \in Len(old) + 1 .. new : files'[h].vec[k] = 0
                    ELSE files'[h].vec = old
          /\ (ret'.op = "open" /\ ret'.h = h /\ files'[h].kind = "file"
                /\ files'[h].vec = <<>>)
             => LET sought == FileSeek(files'[h], Start(4)).res
                    written == FileWrite(sought, <<88>>).res
                IN  ReadAll(written) = <<0, 0, 0, 0, 88>>]_vars

\* End(2) on the 10-byte file "b" has appended two zero bytes after the ten
C11_Witness ==
    \E h \in OpenFiles :
        /\ ret.op = "seek" /\ ret.arg = End(2) /\ ret.val = 12
        /\ files[h].node.name = "b"
        /\ Len(files[h].vec) = 12
        /\ files[h].vec[10] = (16 * 9 + 5) % 256
        /\ files[h].vec[11] = 0 /\ files[h].vec[12] = 0

\* C12: for 0 <= n <= buffer.len, a read_to_end called after seek(Start(n))
\* ends after finitely many reads (one per started 1024 bytes, and the one
\* that returns 0), has collected buffer[n ..] and leaves the position at
\* buffer.len.
C12_ReadToEndTerminates ==
    (rte.pc = "loop")
    ~> (/\ rte.pc = "done"
        /\ \A h \in Handles :
              LET len == Len(rte.buffer)
                  n == rte.from
              IN  /\ rte.vec = SubSeq(rte.buffer, n + 1, len)
                  /\ rte.read = len - n
                  /\ rte.calls = (len - n + ReadBufSize - 1) \div ReadBufSize + 1
                  /\ files[h].seek = len
                  /\ files[h].vec = rte.buffer)

\* 2048 bytes from offset 1 of a 2049-byte buffer: two full reads and the
\* read that returns 0
C12_Witness ==
    /\ rte.pc = "done" /\ rte.calls = 3 /\ rte.from = 1
    /\ Len(rte.vec) = 2 * ReadBufSize
    /\ rte.vec[1] = 2 /\ rte.vec[2 * ReadBufSize] = (2 * ReadBufSize + 1) % 251
    /\ ret.op = "seek" /\ ret.arg = Start(1)

\* C13: sync on a resource whose dirty flag is false returns true, makes no
\* device write, and leaves the buffer, the position, the flag and the
\* in-memory extents of the resource as they were.
C13_CleanSyncDoesNothing ==
    [][\A h \in OpenFiles :
          (ret'.op = "sync" /\ ret'.h = h /\ ~files[h].dirty)
          => /\ ret'.val = TRUE
             /\ ret'.writes = <<>>
             /\ disk' = disk
             /\ files'[h].vec = files[h].vec
             /\ files'[h].seek = files[h].seek
             /\ files'[h].dirty = FALSE
             /\ files'[h].node.extents = files[h].node.extents]_vars

\* a sync of "a" after a seek has extended the buffer to 7 bytes without
\* setting the flag: the 7 bytes stay in memory only
C13_Witness ==
    \E h \in OpenFiles :
        /\ ret.op = "sync" /\ ret.val = TRUE /\ ret.writes = <<>>
        /\ hist = <<[op |-> "open", arg |-> "a"], [op |-> "seek", arg |-> 0],
                    [op |-> "sync", arg |-> 0]>>
        /\ Len(files[h].vec) = 7 /\ files[h].seek = 7
        /\ ~files[h].dirty
        /\ files[h].node.extents[1].length = 5
        /\ disk = InitDisk

\* the slots of a node that hold data
UsedSlots(extents) ==
    {i \in 1 .. NumExtents : extents[i].block > 0 /\ extents[i].length > 0}

\* the bytes the whole sectors of an extent can take
Capacity(extent) == ((extent.length + BlockSize - 1) \div BlockSize) * BlockSize

\* where in the buffer the bytes of slot i start: the capacities of the used
\* slots before it, summed
SlotOffset(extents, i) ==
    SumTo([j \in 1 .. NumExtents |->
              IF j < i /\ j \in UsedSlots(extents) THEN Capacity(extents[j]) ELSE 0],
          NumExtents)

\* the bytes of the buffer that go to slot i
SlotSize(extents, i, len) ==
    Min(Capacity(extents[i]), Max(0, len - SlotOffset(extents, i)))

\* disk d1 is disk d0 after the buffer of f has been written to the extents
\* of its node: every sector that takes bytes of the buffer holds them, at
\* the bytes past the end of the buffer anything, and no other sector differs
Flushed(f, d0, d1) ==
    LET extents == f.node.extents
        len == Len(f.vec)
        written(i) ==
            {s \in DOMAIN d0 :
                /\ extents[i].block <= s
                /\ s < extents[i].block
                         + (SlotSize(extents, i, len) + BlockSize - 1) \div BlockSize}
    IN  /\ \A i \in UsedSlots(extents) : \A s \in written(i) :
              \A k \in 1 .. BlockSize :
                  LET at == SlotOffset(extents, i) + (s - extents[i].block) * BlockSize + k
                  IN  at <= len => d1[s][k] = f.vec[at]
        /\ \A s \in DOMAIN d0 :
              (\A i \in UsedSlots(extents) : s \notin written(i)) => d1[s] = d0[s]

\* C14: closing a resource runs sync before the resource is released: the
\* buffer of a dirty resource is written to the extents of its node exactly
\* as a sync would write it, and closing a clean resource writes nothing.
C14_CloseSyncs ==
    [][\A h \in OpenFiles :
          (ret'.op = "close" /\ ret'.h = h)
          => /\ files'[h] = Closed
             /\ \E g \in Garbage :
                   LET r == FileSync(files[h], disk, g)
                   IN  disk' = r.disk /\ ret'.writes = r.writes /\ ret'.val = r.val
             /\ files[h].dirty
                   => /\ Flushed(files[h], disk, disk')
                      /\ ret'.val = (Len(files[h].vec) <= NodeCapacity(files[h].node.extents))
             /\ ~files[h].dirty => (disk' = disk /\ ret'.writes = <<>>)]_vars

\* "b" closed after a write of 7 bytes at offset 0: sector 8 holds the 7
\* bytes and after them the rest of the buffer, read from sector 9 at the
\* open, and the resource is gone
C14_Witness ==
    /\ ret.op = "close" /\ Len(ret.writes) = 1
    /\ hist = <<[op |-> "open", arg |-> "b"],
                [op |-> "write", arg |-> <<70, 71, 72, 73, 74, 75, 76>>],
                [op |-> "close", arg |-> 0]>>
    /\ SubSeq(disk[8], 1, 8) = <<70, 71, 72, 73, 74, 75, 76, (16 * 9 + 3) % 256>>
    /\ \A h \in Handles : files[h] = Closed

C17_OpenMissingIsNone ==
    [][\A h \in Handles :
          (ret'.op = "open" /\ ret'.h = h
              /\ \A i \in 1 .. Len(nodes) : nodes[i].name # ret'.arg)
          => /\ files'[h].kind = "none"
             /\ ret'.writes = <<>>
             /\ nodes' = nodes
             /\ disk' = disk]_vars

\* the open of "zz", a name no node has
C17_Witness ==
    \E h \in Handles :
        /\ ret.op = "open" /\ ret.arg = "zz" /\ ret.h = h
        /\ files[h] = NoneResource
        /\ ret.writes = <<>>

\* what an open of the node of resource f would load from disk d
OnDisk(f, d) == ExtentContents(d, nodes[NodeIndex(nodes, f.node.name, 1)].extents)

\* handle h has written and synced: its buffer is clean and is not the
\* buffer the open returned
HasFlushed(h) ==
    /\ ~files[h].dirty
    /\ files[h].vec # ExtentContents(InitDisk, nodes[NodeIndex(nodes, files[h].node.name, 1)].extents)

\* C15: with two handles open on one node, a write or sync on one handle
\* changes neither the buffer nor the seek nor the dirty flag of the other,
\* and when a handle flushes after the other has flushed, the content of the
\* node's extents on disk is that of the buffer flushed last, byte for byte
\* as far as both reach.
C15_LastFlusherWins ==
    [][\A h \in Handles2 :
          LET o == 3 - h
          IN  (ret'.h = h /\ ret'.op \in {"write", "sync"})
              => /\ files'[o] = files[o]
                 /\ (ret'.op = "sync" /\ files[h].dirty /\ HasFlushed(o))
                    => LET content == OnDisk(files[h], disk')
                       IN  \A k \in 1 .. Min(Len(content), Len(files[h].vec)) :
                              content[k] = files[h].vec[k]]_vars

\* in all steps of two handles the other handle's resource is left alone
TwoHandlesApart ==
    [][\A h \in Handles2 :
          (ret'.h = h /\ ret'.op \in {"write", "sync"}) => files'[3 - h] = files[3 - h]]_vars

\* both handles have flushed different buffers, handle 2 last
BothFlushed ==
    /\ ret.op = "sync" /\ ret.h = 2 /\ ret.writes # <<>>
    /\ HasFlushed(1) /\ HasFlushed(2)
    /\ files[1].vec # files[2].vec

\* C18: from_disk returns None without reading a sector when identify()
\* is false, returns None after the read of sector 1, without reading the
\* node table, when the signature is not "REDOXFS\0" or the version is not
\* 0xFFFFFFFF, and returns a FileSystem in every other case.
C18_MountChecksHeader ==
    boot.pc = "done" /\ boot.image # <<>>
    => LET image == boot.image
           redox == /\ image.header.signature = <<82, 69, 68, 79, 88, 70, 83, 0>>
                    /\ \A i \in 1 .. 4 : image.header.version[i] = 255
       IN  /\ ~image.identify => (~boot.some /\ boot.reads = <<>>)
           /\ (image.identify /\ ~redox)
                 => (~boot.some /\ boot.reads = <<[block |-> 1, count |-> 1]>>)
           /\ (image.identify /\ redox) => boot.some
           /\ ~boot.some => nodes = <<>>

\* a disk whose header has "REDOXFS " with a space for the NUL: sector 1
\* was read, the node table at sector 2 was not, and there is no file system
C18_Witness ==
    /\ boot.pc = "done" /\ boot.image # <<>>
    /\ boot.image.identify
    /\ boot.image.header.signature = <<82, 69, 68, 79, 88, 70, 83, 1>>
    /\ boot.image.header.version = VersionBytes
    /\ boot.image.header.extents[1] = Extent(2, NodeDataSize)
    /\ ~boot.some
    /\ boot.reads = <<[block |-> 1, count |-> 1]>>

\* the entry of a name in the listing of a directory: what follows the
\* directory, cut after its first '/' when it has one
EntryOf(name, path) ==
    LET rest == SubSeq(name, Len(path) + 1, Len(name))
        cut == {i \in 1 .. Len(rest) : rest[i] = Slash /\ \A j \in 1 .. i - 1 : rest[j] # Slash}
    IN  IF cut = {} THEN rest ELSE SubSeq(rest, 1, CHOOSE i \in cut : TRUE)

\* the nodes that give a line of the listing: the name starts with the
\* path, the entry is not empty, and no earlier node gives the same
\* directory entry
ListedNodes(ns, path) ==
    {i \in 1 .. Len(ns) :
        /\ Len(ns[i].name) >= Len(path)
        /\ \A k \in 1 .. Len(path) : ns[i].name[k] = path[k]
        /\ EntryOf(ns[i].name, path) # <<>>
        /\ \A j \in 1 .. i - 1 :
              (/\ Len(ns[j].name) >= Len(path)
               /\ \A k \in 1 .. Len(path) : ns[j].name[k] = path[k]
               /\ EntryOf(ns[j].name, path) = EntryOf(ns[i].name, path))
              => Slash \notin {EntryOf(ns[i].name, path)[k] :
                                  k \in 1 .. Len(EntryOf(ns[i].name, path))}}

\* the entries of the nodes from i on, each after a newline
RECURSIVE JoinFrom(_, _, _)
JoinFrom(ns, path, i) ==
    IF i > Len(ns) THEN <<>>
    ELSE (IF i \in ListedNodes(ns, path)
          THEN <<Newline>> \o EntryOf(ns[i].name, path) ELSE <<>>)
         \o JoinFrom(ns, path, i + 1)

\* C19: the open of an empty path or of a path that ends in '/' returns a
\* directory listing: for each node whose name starts with the path, in
\* node order, a leaf entry (the rest of the name, when it has no '/') or a
\* directory entry (the rest up to and including its first '/'), each
\* directory once, where it is first met; the entries are joined by one
\* newline, with no newline first or last and no empty entry. The nodes
\* "a/b", "a/c", "d" and the path "" give "a/\nd".
C19_DirectoryListing ==
    \A h \in Handles :
        (ret.op = "open" /\ ret.h = h
            /\ (ret.arg = <<>> \/ ret.arg[Len(ret.arg)] = Slash))
        => LET vec == files[h].vec
               joined == JoinFrom(nodes, ret.arg, 1)
           IN  /\ files[h].kind = "dir"
               /\ vec = IF joined = <<>> THEN <<>> ELSE Tail(joined)
               /\ vec # <<>> => (vec[1] # Newline /\ vec[Len(vec)] # Newline)
               /\ \A k \in 1 .. Len(vec) - 1 : ~(vec[k] = Newline /\ vec[k + 1] = Newline)
               /\ (ret.arg = <<>> /\ Len(nodes) = 3
                     /\ nodes[1].name = <<97, 47, 98>> /\ nodes[2].name = <<97, 47, 99>>
                     /\ nodes[3].name = <<100>>)
                  => vec = <<97, 47, Newline, 100>>

\* the listing of "a/" over the nodes "a/b/c", "a/", "a/b": the directory
\* "b/", nothing for the node named as the path, then the leaf "b"
C19_Witness ==
    \E h \in Handles :
        /\ ret.op = "open" /\ ret.h = h /\ ret.arg = <<97, 47>>
        /\ Len(nodes) = 3
        /\ nodes[1].name = <<97, 47, 98, 47, 99>>
        /\ nodes[2].name = <<97, 47>>
        /\ nodes[3].name = <<97, 47, 98>>
        /\ files[h] = DirResource(<<98, 47, Newline, 98>>)

-----------------------------------------------------------------------------
(* Properties of the example provider *)

\* C6: every open returns an id that is not the id of a handle currently
\* open, so that no live handle is replaced by a later open, also after
\* the id counter has wrapped and been reset to 1.
C6_OpenReturnsFreshId ==
    [][(exret'.op = "open" /\ exret'.res = "Ok") => exret'.val \notin DOMAIN exfiles]_vars

\* C20: read, write, seek, sync and close on an id that is not in the
\* handle table of the example provider return EBADF and leave the handle
\* table, the id counter and the data and position of every open file as
\* they were.
C20_BadHandleIsEBADF ==
    [][(exret'.op \in {"read", "write", "seek", "sync", "close"}
          /\ exret'.id \notin DOMAIN exfiles)
       => /\ exret'.res = "EBADF"
          /\ DOMAIN exfiles' = DOMAIN exfiles
          /\ \A id \in DOMAIN exfiles :
                /\ exfiles'[id].data = exfiles[id].data
                /\ exfiles'[id].seek = exfiles[id].seek
          /\ next_id' = next_id]_vars

\* a sync on id 2 while only id 1 is open, its file written to before
C20_Witness ==
    /\ exret.op = "sync" /\ exret.id = 2 /\ exret.res = "EBADF"
    /\ DOMAIN exfiles = {1}
    /\ exfiles[1].data = <<65, 66, 97, 109, 112, 108, 101>>
    /\ exfiles[1].seek = 2
    /\ next_id = 2

\* C21: close on an open id of the example provider returns 0 and removes
\* exactly that id from the handle table, every other handle keeping its data
\* and position; an id that is not in the table answers EBADF to read, write,
\* seek, sync and close, and it enters the table again only by an open that
\* returns it.
C21_CloseRemovesHandle ==
    [][/\ (exret'.op = "close" /\ exret'.id \in DOMAIN exfiles)
          => /\ exret'.res = "Ok" /\ exret'.val = 0
             /\ DOMAIN exfiles' = DOMAIN exfiles \ {exret'.id}
             /\ \A id \in DOMAIN exfiles' : exfiles'[id] = exfiles[id]
       /\ \A id \in CallIds \ DOMAIN exfiles :
             /\ (exret'.id = id /\ exret'.op \in {"read", "write", "seek", "sync", "close"})
                   => exret'.res = "EBADF"
             /\ id \in DOMAIN exfiles'
                   => exret'.op = "open" /\ exret'.res = "Ok" /\ exret'.val = id]_vars

\* a read on id 1 after ids 1 and 2 were opened and id 1 was closed
C21_Witness ==
    /\ exret.op = "read" /\ exret.id = 1 /\ exret.res = "EBADF"
    /\ next_id = 3
    /\ DOMAIN exfiles = {2}

\* C22: a seek of the example provider on an open id with whence SET and
\* 0 <= offset <= data length returns offset and stores it as the position
\* of the file, and with whence END and offset 0 it returns and stores the
\* data length.
C22_SeekPlacesPosition ==
    [][\A id \in DOMAIN exfiles : \A a \in ExSeekArgs :
          LET size == Len(exfiles[id].data)
              position == CASE a[2] = 0 /\ 0 <= a[1] /\ a[1] <= size -> a[1]
                            [] a[2] = 2 /\ a[1] = 0 -> size
                            [] OTHER -> -1
          IN  (position >= 0 /\ ExSeek(id, a[1], a[2]))
                 => /\ exret'.res = "Ok" /\ exret'.val = position
                    /\ exfiles'[id].seek = position]_vars

-----------------------------------------------------------------------------
(* Properties of the server loop *)

\* the replies written so far answer the packets read so far, in their order
RepliesInOrder ==
    /\ \A i \in 1 .. Len(socket.sent) : socket.sent[i].tag = i
    /\ Len(socket.sent) = IF socket.pc \in {"handle", "write"} THEN socket.reads - 1
                          ELSE socket.reads

IsServerRead == socket.pc = "read" /\ socket'.pc # "read"

\* a read that returns 0 or an error ends the loop: the provider takes no
\* step after it
EofIsFatal ==
    [][/\ (IsServerRead /\ socket'.count <= 0) => socket'.pc = "dead"
       /\ socket.pc # "dead"]_vars

\* C24: a socket.read of the loop that returns 0 bytes or less than one
\* whole packet ends the loop: the packet is not dispatched and no reply
\* is written.
C24_ShortReadIsFatal ==
    [][/\ (IsServerRead /\ socket'.count < PacketWords) => socket'.pc = "dead"
       /\ socket.pc # "dead"]_vars

-----------------------------------------------------------------------------
(* Properties of the extent walk of sync *)

\* the total size of the extents walked before slot i, for a buffer of len
\* bytes: the walk fills every used extent to its whole sectors until the
\* buffer runs out
WalkOffset(extents, i, len) == Min(len, SlotOffset(extents, i))

\* min(bytes remaining, ceil(length / 512) * 512) at slot i
WalkSize(extents, i, len) ==
    Min(len - WalkOffset(extents, i, len), Capacity(extents[i]))

\* the device calls of the walk from slot i on: one for each used extent
\* that takes bytes
RECURSIVE WalkCalls(_, _, _)
WalkCalls(extents, i, len) ==
    IF i > NumExtents THEN <<>>
    ELSE (IF i \in UsedSlots(extents) /\ WalkSize(extents, i, len) > 0
          THEN <<[block |-> extents[i].block,
                  count |-> SectorsOf(WalkSize(extents, i, len)),
                  from |-> WalkOffset(extents, i, len)]>>
          ELSE <<>>) \o WalkCalls(extents, i + 1, len)

\* the first size bytes of the sectors from block on are the bytes of vec
\* from offset on
HoldsBytes(d, block, vec, offset, size) ==
    \A j \in 0 .. SectorsOf(size) - 1 :
        LET n == Min(BlockSize, size - j * BlockSize)
        IN  SubSeq(d[block + j], 1, n)
               = SubSeq(vec, offset + j * BlockSize + 1, offset + j * BlockSize + n)

\* C25: a dirty sync walks the extents of the node in slot order; a used
\* extent takes size = min(bytes remaining, ceil(length / 512) * 512) bytes of
\* the buffer, from the offset that is the total size of the extents walked
\* before it, written to the sectors from extent.block on, and its length in
\* memory becomes size; an unused slot is left as it is and takes no bytes.
C25_SyncWalksExtents ==
    [][\A h \in OpenFiles :
          (ret'.op = "sync" /\ ret'.h = h /\ files[h].dirty)
          => LET extents == files[h].node.extents
                 vec == files[h].vec
             IN  /\ ret'.writes = WalkCalls(extents, 1, Len(vec))
                 /\ \A i \in 1 .. NumExtents :
                       IF i \in UsedSlots(extents)
                       THEN /\ files'[h].node.extents[i]
                                 = [extents[i] EXCEPT
                                       !.length = WalkSize(extents, i, Len(vec))]
                            /\ HoldsBytes(disk', extents[i].block, vec,
                                          WalkOffset(extents, i, Len(vec)),
                                          WalkSize(extents, i, Len(vec)))
                       ELSE files'[h].node.extents[i] = extents[i]]_vars

\* "b" synced after a write of BigLen bytes: its first extent took a whole
\* sector from offset 0, its third the rest from offset 512, and the unused
\* slot between them nothing
C25_Witness ==
    \E h \in OpenFiles :
        /\ ret.op = "sync" /\ ret.h = h
        /\ ret.writes = <<[block |-> 8, count |-> 1, from |-> 0],
                          [block |-> 9, count |-> 1, from |-> BlockSize]>>
        /\ files[h].node.extents[1] = Extent(8, BlockSize)
        /\ files[h].node.extents[2] = NoExtent
        /\ files[h].node.extents[3] = Extent(9, BigLen - BlockSize)
        /\ disk[9][BigLen - BlockSize] = 88

-----------------------------------------------------------------------------
(* Properties of the chunk loops *)

\* the calls cover sectors 0 .. sectors - 1 once, in order, each with 1 to
\* 65,535 sectors and all but the last with 65,535
WellChunked(calls, sectors) ==
    /\ Len(calls) >= 1
    /\ calls[1].sector = 0
    /\ \A k \in 1 .. Len(calls) :
          /\ 1 <= calls[k].count /\ calls[k].count <= MaxChunk
          /\ k < Len(calls) => /\ calls[k].count = MaxChunk
                                /\ calls[k + 1].sector = calls[k].sector + calls[k].count
    /\ calls[Len(calls)].sector + calls[Len(calls)].count = sectors

\* the chunk loop of sync issues well-formed calls
SyncWellChunked == ret.op = "sync" => WellChunked(ret.writes, ret.arg)

\* C26: the transfer of an extent of S sectors, at mount, at open and at
\* sync, is a sequence of device calls of 1 to 65,535 sectors each, at
\* consecutive offsets that do not overlap, covering exactly sectors
\* 0 .. S - 1: full chunks of 65,535 sectors and a last call for the rest.
C26_TransfersAreChunked ==
    ret.op \in {"mount", "open", "sync"} => WellChunked(ret.writes, ret.arg)

-----------------------------------------------------------------------------
(* Properties of the node sequence built at mount *)

\* the records slot i of the header contributes
RecordCount(extents, i) ==
    IF extents[i].block > 0 /\ extents[i].length > 0
    THEN extents[i].length \div NodeDataSize ELSE 0

\* the records the slots before slot i contribute
RecordsBefore(extents, i) ==
    SumTo([j \in 1 .. NumExtents |-> IF j < i THEN RecordCount(extents, j) ELSE 0],
          NumExtents)

\* name is the content of a name field: its bytes before the first 0
IsNameOf(name, field) ==
    /\ Len(name) <= Len(field)
    /\ \A k \in 1 .. Len(name) : name[k] = field[k] /\ name[k] # 0
    /\ Len(name) < Len(field) => field[Len(name) + 1] = 0

-----------------------------------------------------------------------------
(* Properties of the id counter of the example provider *)

\* C28: the id counter of the example provider starts at 1 and is positive
\* whenever an open reads it; an open returns the value of the counter and
\* leaves it one higher, or at 1 when the increment passes the signed
\* maximum; no other operation changes the counter.
C28_IdCounter ==
    /\ next_id = 1
    /\ [](1 <= next_id /\ next_id <= MaxId)
    /\ [][IF exret'.op = "open" /\ exret'.res = "Ok"
          THEN /\ exret'.val = next_id
               /\ next_id' = IF next_id = MaxId THEN 1 ELSE next_id + 1
          ELSE next_id' = next_id]_vars

\* the open that returned the signed maximum and left the counter at 1
C28_Witness ==
    /\ exret.op = "open" /\ exret.res = "Ok" /\ exret.val = MaxId
    /\ next_id = 1
    /\ MaxId \in DOMAIN exfiles

-----------------------------------------------------------------------------
(* Properties of the interrupt masking *)

\* the places between start_no_ints and end_no_ints
InSection == kernel.pc \in {"write", "i", "len", "end"}

\* an operation returns in this step
Returns == kernel'.runs # kernel.runs

\* the sync made step by step leaves the disk FileSync leaves
SyncStepsAgree == [][(kernel.pc = "sync" /\ Returns) => disk = kernel.want]_vars

\* C29: in the open of the context scheme and in FileResource::sync a
\* section opened by start_no_ints is closed by end_no_ints with the token
\* start_no_ints returned before the operation returns; sections are not
\* nested; interrupts are disabled inside a section, so at every disk write
\* of sync; and when either operation returns the interrupt flag is what it
\* was when the operation was entered.
C29_ScopedMasking ==
    /\ [](/\ kernel.depth = (IF InSection THEN 1 ELSE 0)
          /\ InSection => (~kernel.ints /\ kernel.reenable = kernel.entry)
          /\ kernel.masked)
    /\ [][/\ kernel'.depth < kernel.depth => kernel'.ints = kernel.reenable
          /\ Returns => kernel'.ints = kernel'.entry]_vars

\* a sync of "b" after a write of BigLen bytes, entered with interrupts
\* enabled: two sections, a disk write in each, and interrupts enabled again
C29_Witness ==
    /\ kernel.pc = "idle" /\ ret.op = "sync"
    /\ kernel.entry /\ kernel.ints /\ kernel.depth = 0
    /\ disk[8][1] = 88 /\ disk[9][1] = 88
    /\ disk = kernel.want

\* C30: the pair (i, n) in the buffer "Current: {i}\nTotal: {n}" that the
\* open of the context scheme returns is a pair (current context, number of
\* contexts) that held at one instant during the open, whatever interrupts
\* switched context or changed the number of contexts meanwhile.
C30_SnapshotIsAtomic ==
    [][(kernel.pc = "return" /\ Returns)
       => \E p \in kernel.held : ret'.out = ContextBytes(p[1], p[2])]_vars

\* an open that returned "Current: 1\nTotal: 2" after an interrupt had made
\* context 1 of 2 current before the section and another had left one
\* context after it
C30_Witness ==
    /\ kernel.pc = "idle" /\ ret.op = "context"
    /\ ret.out = <<67, 117, 114, 114, 101, 110, 116, 58, 32, 49, 10,
                   84, 111, 116, 97, 108, 58, 32, 50>>
    /\ kernel.held = {<<0, 1>>, <<1, 2>>}
    /\ kernel.context_i = 0 /\ kernel.contexts = 1

-----------------------------------------------------------------------------
(* Properties of what a sync that reports success has written *)

\* a sync of a dirty resource that returns true has every byte of the buffer
\* in the used extents of the resource's node afterwards
DirtySyncTrueWritesAll ==
    [][\A h \in OpenFiles :
          (ret'.op = "sync" /\ ret'.h = h /\ ret'.val = TRUE /\ files[h].dirty)
          => files'[h].vec = ExtentContents(disk', files'[h].node.extents)]_vars

\* C31: whenever sync on a FileResource returns true, after any sequence of
\* write, seek and earlier sync calls (an earlier sync that returned false
\* included), the on-disk bytes of the used extents of the resource's node,
\* read in slot order, start with the whole buffer.
C31_SyncTrueMeansWritten ==
    [][\A h \in OpenFiles :
          (ret'.op = "sync" /\ ret'.h = h /\ ret'.val = TRUE)
          => IsPrefix(files'[h].vec,
                      ExtentContents(disk', files'[h].node.extents))]_vars

-----------------------------------------------------------------------------
(* Properties of where sync writes *)

\* the extents the node of resource f had when FileScheme::open cloned it
OpenedExtents(f) ==
    nodes[CHOOSE k \in 1 .. Len(nodes) : nodes[k].address = f.node.address].extents

\* the sectors of the extents: [block, block + ceil(length / 512)) of every
\* used slot
ExtentSectors(extents) ==
    UNION {extents[i].block .. extents[i].block + SectorsOf(extents[i].length) - 1 :
              i \in UsedSlots(extents)}

\* the sectors of a device call
CallSectors(w) == w.block .. w.block + w.count - 1

LaterSyncSkipsEmptied ==
    \E h \in OpenFiles :
        /\ ret.op = "sync" /\ ret.h = h /\ steps = 4
        /\ ret.writes = <<[block |-> 8, count |-> 1, from |-> 0]>>
        /\ files[h].node.extents[3] = Extent(9, 0)
        /\ Len(files[h].vec) > 10

-----------------------------------------------------------------------------
(* Properties of where sync takes its bytes from *)

\* the byte range of the buffer a device call of sync hands to the disk
CallBytes(w) == [from |-> w.from, to |-> w.from + w.count * BlockSize]

\* every device call of sync starts inside the buffer and runs past its end
\* by less than one sector
SyncSourceStartsInside ==
    [][\A h \in OpenFiles :
          (ret'.h = h /\ ret'.op \in {"sync", "close"})
          => \A k \in 1 .. Len(ret'.writes) :
                LET r == CallBytes(ret'.writes[k])
                IN  /\ 0 <= r.from /\ r.from < Len(files[h].vec)
                    /\ r.to - Len(files[h].vec) < BlockSize]_vars

\* C33: every disk write issued by sync takes its source bytes from inside
\* the buffer: the byte range handed to the disk for a used extent,
\* [pos, pos + ceil(size / 512) * 512), lies within [0, buffer.len).
C33_SyncSourceInsideBuffer ==
    [][\A h \in OpenFiles :
          (ret'.h = h /\ ret'.op \in {"sync", "close"})
          => \A k \in 1 .. Len(ret'.writes) :
                LET r == CallBytes(ret'.writes[k])
                IN  0 <= r.from /\ r.to <= Len(files[h].vec)]_vars

====
